---- MODULE Spec2Model ----
(***************************************************************************)
(* A model of avifinfo.rs: the box-tree parser behind identify() and       *)
(* get_features().  The input buffer is a byte string; every parsing loop  *)
(* of the source is an action that performs one iteration of that loop.    *)
(***************************************************************************)
EXTENDS Integers, Sequences, FiniteSets, TLC

(***************************************************************************)
(* Program constants.                                                      *)
(***************************************************************************)
AVIFINFO_MAX_NUM_BOXES == 4096
AVIFINFO_MAX_VALUE == 255
AVIFINFO_MAX_TILES == 16
AVIFINFO_MAX_PROPS == 32
AVIFINFO_MAX_FEATURES == 8
AVIFINFO_UNDEFINED == 0
\* parse_ftyp: "if i > 32 { return Err(Aborted) }"
MaxBrandIndex == 32
\* get_item_features: "if tile_depth < 3"
MaxTileDepth == 3

(***************************************************************************)
(* Bounds of the model: the input families below are built from them.      *)
(*   MaxPre     boxes before 'meta'                                        *)
(*   MaxWords   words of a 'ftyp' box                                      *)
(*   MaxBoxRun  boxes of a run of empty boxes                              *)
(*   OverSize   bytes a 'meta' box is declared longer than the file        *)
(*   UnsupportedVersion   the version written over a supported one         *)
(***************************************************************************)
MaxPre == 2
MaxWords == 36
MaxBoxRun == 4097
OverSize == 64
UnsupportedVersion == 3

(***************************************************************************)
(* Four-character codes, as their four bytes.                              *)
(***************************************************************************)
FTYP == <<102, 116, 121, 112>>
META == <<109, 101, 116, 97>>
PITM == <<112, 105, 116, 109>>
IPMA == <<105, 112, 109, 97>>
ISPE == <<105, 115, 112, 101>>
PIXI == <<112, 105, 120, 105>>
IREF == <<105, 114, 101, 102>>
AUXC == <<97, 117, 120, 67>>
IINF == <<105, 105, 110, 102>>
INFE == <<105, 110, 102, 101>>
SKIP == <<115, 107, 105, 112>>
AVIF == <<97, 118, 105, 102>>
AVIS == <<97, 118, 105, 115>>
IPRP == <<105, 112, 114, 112>>
IPCO == <<105, 112, 99, 111>>
AV1C == <<97, 118, 49, 67>>
DIMG == <<100, 105, 109, 103>>
TMAP == <<116, 109, 97, 112>>
FREE == <<102, 114, 101, 101>>
MIF1 == <<109, 105, 102, 49>>
MDAT == <<109, 100, 97, 116>>
ABCD == <<97, 98, 99, 100>>
AV01 == <<97, 118, 48, 49>>

\* b"urn:mpeg:mpegB:cicp:systems:auxiliary:alpha\0"
ALPHA_STR ==
  <<117, 114, 110, 58, 109, 112, 101, 103, 58, 109, 112, 101, 103, 66, 58,
    99, 105, 99, 112, 58, 115, 121, 115, 116, 101, 109, 115, 58, 97, 117,
    120, 105, 108, 105, 97, 114, 121, 58, 97, 108, 112, 104, 97, 0>>
\* b"urn:com:photo:aux:hdrgainmap\0"
GAINMAP_STR ==
  <<117, 114, 110, 58, 99, 111, 109, 58, 112, 104, 111, 116, 111, 58, 97,
    117, 120, 58, 104, 100, 114, 103, 97, 105, 110, 109, 97, 112, 0>>

FullBoxTypes == {META, PITM, IPMA, ISPE, PIXI, IREF, AUXC, IINF, INFE}

(***************************************************************************)
(* The input buffer.  A buffer is the byte string  head \o unit^reps : an  *)
(* explicit byte sequence followed by `reps' copies of one byte sequence.  *)
(* Bytes are indexed from 0, as in the source.                             *)
(***************************************************************************)
Buffer(head, unit, reps) == [head |-> head, unit |-> unit, reps |-> reps]
Plain(bytes) == Buffer(bytes, <<>>, 0)
DataLen(d) == Len(d.head) + d.reps * Len(d.unit)
DataAt(d, i) ==
  IF i < Len(d.head) THEN d.head[i + 1]
  ELSE d.unit[((i - Len(d.head)) % Len(d.unit)) + 1]

(***************************************************************************)
(* usize arithmetic (64-bit build).  A usize value v is held as its        *)
(* residue in (-2^63, 2^63): a non-negative integer is itself, a negative  *)
(* integer x stands for 2^64 + x.  The inputs of the model keep every      *)
(* value within 2^30 of 0 or of 2^64, so the sums below are exact.         *)
(***************************************************************************)
Some(x) == [some |-> TRUE, v |-> x]
None == [some |-> FALSE, v |-> 0]
unwrap_or(o, x) == IF o.some THEN o.v ELSE x

ult(a, b) == IF (a >= 0) = (b >= 0) THEN a < b ELSE b < 0
ule(a, b) == a = b \/ ult(a, b)
checked_add(a, b) ==
  IF a >= 0 /\ b >= 0 THEN Some(a + b)
  ELSE IF a < 0 /\ b < 0 THEN None
  ELSE IF a + b >= 0 THEN None
  ELSE Some(a + b)
checked_sub(a, b) == IF ult(a, b) THEN None ELSE Some(a - b)
saturating_sub(a, b) == IF ult(a, b) THEN 0 ELSE a - b
umin(a, b) == IF ult(b, a) THEN b ELSE a

\* u{8,16,32}::from_be_bytes
RECURSIVE be_acc(_, _, _)
be_acc(bytes, k, acc) ==
  IF k > Len(bytes) THEN acc ELSE be_acc(bytes, k + 1, acc * 256 + bytes[k])
from_be_bytes(bytes) == be_acc(bytes, 1, 0)
\* u64::from_be_bytes followed by try_into::<usize>() (never fails on a
\* 64-bit build), giving the residue described above.
RECURSIVE be_neg(_, _, _)
be_neg(bytes, k, acc) ==
  IF k > Len(bytes) THEN acc - 1
  ELSE be_neg(bytes, k + 1, acc * 256 + (bytes[k] - 255))
from_be_bytes64(bytes) ==
  IF bytes[1] < 128 THEN be_acc(bytes, 1, 0) ELSE be_neg(bytes, 1, 0)

(***************************************************************************)
(* Stream.  `data' is a window of the input buffer: it starts at absolute  *)
(* index base and has dlen bytes (data: None is dlen = 0, which every      *)
(* operation of the source treats like an empty slice).  size is the known *)
(* size of the parent box, if any; offset counts the bytes read or         *)
(* skipped.  Every operation returns the status and the updated stream.    *)
(***************************************************************************)
Stream(base, dlen, size) ==
  [base |-> base, dlen |-> dlen, size |-> size, offset |-> 0]


\* Every function below is written as the chain of its steps: an operator
\* takes the value of the step before it as a parameter, ends on the
\* function's early return or goes on to the next step.

\* skip with a sum that wraps around (to 0) instead of failing.
skip_to_wrapping(s, sum) ==
  IF s.size.some /\ ult(s.size.v, sum.v)
  THEN [err |-> "Invalid", s |-> [s EXCEPT !.offset = sum.v]]
  ELSE [err |-> "Ok", s |-> [s EXCEPT !.offset = sum.v]]
\* skip reporting a cursor past the declared size like an overflow.
skip_to_aborted(s, sum) ==
  IF ~sum.some THEN [err |-> "Aborted", s |-> s]
  ELSE IF s.size.some /\ ult(s.size.v, sum.v)
  THEN [err |-> "Aborted", s |-> [s EXCEPT !.offset = sum.v]]
  ELSE [err |-> "Ok", s |-> [s EXCEPT !.offset = sum.v]]
\* skip: sum is offset.checked_add(num_bytes).  The offset is stored before
\* it is compared with the declared size.
skip_to(s, sum) ==
  IF ~sum.some THEN [err |-> "Aborted", s |-> s]
  ELSE IF s.size.some /\ ult(s.size.v, sum.v)
  THEN [err |-> "Invalid", s |-> [s EXCEPT !.offset = sum.v]]
  ELSE [err |-> "Ok", s |-> [s EXCEPT !.offset = sum.v]]
skip(s, num_bytes) == skip_to(s, checked_add(s.offset, num_bytes))

no_bytes(err, s) == [err |-> err, s |-> s, bytes |-> <<>>]
\* read reporting missing bytes as an invalid file.
read_skipped_invalid(buf, s, num_bytes, k) ==
  IF k.err # "Ok" THEN no_bytes(k.err, k.s)
  ELSE IF ule(k.s.offset, s.dlen)
  THEN [err |-> "Ok", s |-> k.s,
        bytes |-> [i \in 1..num_bytes |->
                     DataAt(buf, s.base + s.offset + i - 1)]]
  ELSE no_bytes("Invalid", k.s)
\* read after its call of skip (k): the bytes are handed out when the new
\* offset lies within the data.
read_skipped(buf, s, num_bytes, k) ==
  IF k.err # "Ok" THEN no_bytes(k.err, k.s)
  ELSE IF ule(k.s.offset, s.dlen)
  THEN [err |-> "Ok", s |-> k.s,
        bytes |-> [i \in 1..num_bytes |->
                     DataAt(buf, s.base + s.offset + i - 1)]]
  ELSE no_bytes("Truncated", k.s)
read(buf, s, num_bytes) ==
  IF num_bytes = 0 THEN no_bytes("Ok", s)
  ELSE read_skipped(buf, s, num_bytes, skip(s, num_bytes))

\* read_u8 / read_u16 / read_u32 through read_uint; any other width aborts.
uint_of(r) ==
  [err |-> r.err, s |-> r.s,
   val |-> IF r.err = "Ok" THEN from_be_bytes(r.bytes) ELSE 0]
read_uint(buf, s, num_bytes) ==
  IF num_bytes \notin {1, 2, 4} THEN [err |-> "Aborted", s |-> s, val |-> 0]
  ELSE uint_of(read(buf, s, num_bytes))
read_u8(buf, s) == read_uint(buf, s, 1)
read_u16(buf, s) == read_uint(buf, s, 2)
read_u32(buf, s) == read_uint(buf, s, 4)

\* (read_uint(1)? << 16) | read_uint(2)?
read_u24_low(hi, lo) ==
  IF lo.err # "Ok" THEN lo
  ELSE [err |-> "Ok", s |-> lo.s, val |-> hi.val * 65536 + lo.val]
read_u24_high(buf, hi) ==
  IF hi.err # "Ok" THEN hi ELSE read_u24_low(hi, read_uint(buf, hi.s, 2))
read_u24(buf, s) == read_u24_high(buf, read_uint(buf, s, 1))

u64_of(r) ==
  [err |-> r.err, s |-> r.s,
   val |-> IF r.err = "Ok" THEN from_be_bytes64(r.bytes) ELSE 0]
read_u64(buf, s) == u64_of(read(buf, s, 8))

fourcc_of(r) == [err |-> r.err, s |-> r.s, val |-> r.bytes]
read_4cc(buf, s) == fourcc_of(read(buf, s, 4))

\* The bytes left in the window instead of the bytes read.
num_unread_bytes(s) == s.dlen - s.offset
num_read_bytes(s) == s.offset

has_more_bytes(s) == IF s.size.some THEN ult(s.offset, s.size.v) ELSE TRUE

\* substream after its call of skip (k).  The child stream's window is the
\* parent's window clipped to the transferred bytes (size of them are
\* available); its declared size is num_bytes as given.
substream_skipped(s, num_bytes, k, size) ==
  IF k.err # "Ok" THEN [err |-> k.err, s |-> k.s, child |-> s]
  ELSE [err |-> "Ok", s |-> k.s,
        child |-> Stream(IF size # 0 THEN s.base + s.offset ELSE 0,
                         size, num_bytes)]
substream_of(s, num_bytes, num_transferred_bytes) ==
  substream_skipped(s, num_bytes, skip(s, num_transferred_bytes),
                    umin(saturating_sub(s.dlen, s.offset), num_transferred_bytes))
substream(s, num_bytes) ==
  substream_of(s, num_bytes,
               unwrap_or(num_bytes, saturating_sub(s.dlen, s.offset)))

(***************************************************************************)
(* Box header parsing.  parse_box returns the status, the advanced stream, *)
(* the updated count of parsed boxes (n), the header (InternalBox) and, as *)
(* raw, the type as read from the file (before any rewrite to "skip").     *)
(***************************************************************************)
InternalBox(box_type, version, flags, content_size) ==
  [box_type |-> box_type, version |-> version, flags |-> flags,
   content_size |-> content_size]
NoBox == InternalBox(<<0, 0, 0, 0>>, 0, 0, None)

BoxErr(err, s, n, raw, version) ==
  [err |-> err, s |-> s, n |-> n, box |-> NoBox, raw |-> raw,
   version |-> version]

is_parsable(box_type, version) ==
  \/ box_type = META /\ version = 0
  \/ box_type = PITM /\ version <= 1
  \/ box_type = IPMA /\ version <= 1
  \/ box_type = ISPE /\ version = 0
  \/ box_type = PIXI /\ version = 0
  \/ box_type = IREF /\ version <= 1
  \/ box_type = AUXC /\ version = 0
  \/ box_type = IINF /\ version <= 1
  \/ box_type = INFE /\ version <= 2

\* "Instead of considering this file as invalid, skip unparsable boxes."
parse_box_done(s, n, box_type, content_size, version, flags) ==
  [err |-> "Ok", s |-> s, n |-> n, raw |-> box_type, version |-> version,
   box |-> InternalBox(IF box_type \in FullBoxTypes
                          /\ ~is_parsable(box_type, version)
                       THEN SKIP ELSE box_type,
                       version, flags, content_size)]

\* The version (rv) and the flags (rf) of a full box.
parse_box_flags(n, box_type, content_size, version, rf) ==
  IF rf.err # "Ok" THEN BoxErr(rf.err, rf.s, n, box_type, version)
  ELSE parse_box_done(rf.s, n, box_type, content_size, version, rf.val)
parse_box_version(buf, n, box_type, content_size, rv) ==
  IF rv.err # "Ok" THEN BoxErr(rv.err, rv.s, n, box_type, 0)
  ELSE parse_box_flags(n, box_type, content_size, rv.val, read_u24(buf, rv.s))

\* The limit of parse_box taken one box late.
box_limit_exceeded(num_parsed_boxes) ==
  num_parsed_boxes > AVIFINFO_MAX_NUM_BOXES
\* "*num_parsed_boxes >= AVIFINFO_MAX_NUM_BOXES" after the increment.
box_limit_reached(num_parsed_boxes) ==
  num_parsed_boxes >= AVIFINFO_MAX_NUM_BOXES

\* Every box counted, 'ftyp' included.
is_counted_always(nesting_level, box_type) == TRUE
\* Top-level 'ftyp' boxes are not counted.
is_counted(nesting_level, box_type) == nesting_level # 0 \/ box_type # FTYP

\* n is the count of parsed boxes after this box.
parse_box_counted(buf, s, n, box_type, content_size, counted) ==
  IF counted /\ box_limit_reached(n) THEN BoxErr("Aborted", s, n, box_type, 0)
  ELSE IF box_type \in FullBoxTypes
  THEN parse_box_version(buf, n, box_type, content_size, read_u8(buf, s))
  ELSE parse_box_done(s, n, box_type, content_size, 0, 0)
parse_box_count(buf, nesting_level, s, num_parsed_boxes, box_type, content_size) ==
  parse_box_counted(buf, s,
                    IF is_counted(nesting_level, box_type)
                    THEN num_parsed_boxes + 1 ELSE num_parsed_boxes,
                    box_type, content_size, is_counted(nesting_level, box_type))

\* The content size is checked against what is left of the parent box.
parse_box_fits(buf, nesting_level, s, num_parsed_boxes, box_type, content_size, box_header_size) ==
  IF /\ s.size.some
     /\ ult(saturating_sub(s.size.v, s.offset),
            unwrap_or(content_size, box_header_size))
  THEN BoxErr("Invalid", s, num_parsed_boxes, box_type, 0)
  ELSE parse_box_count(buf, nesting_level, s, num_parsed_boxes, box_type,
                       content_size)
\* sub is box_size.checked_sub(box_header_size).
parse_box_known(buf, nesting_level, s, num_parsed_boxes, box_type, sub, box_header_size) ==
  IF ~sub.some THEN BoxErr("Invalid", s, num_parsed_boxes, box_type, 0)
  ELSE parse_box_fits(buf, nesting_level, s, num_parsed_boxes, box_type, sub,
                      box_header_size)
\* s is the stream after the size and type fields, box_header_size their
\* length, to which a full box adds 4.
parse_box_content(buf, nesting_level, s, num_parsed_boxes, box_type, box_size, box_header_size) ==
  IF box_size.some
  THEN parse_box_known(buf, nesting_level, s, num_parsed_boxes, box_type,
                       checked_sub(box_size.v, box_header_size), box_header_size)
  ELSE parse_box_fits(buf, nesting_level, s, num_parsed_boxes, box_type, None,
                      box_header_size)
parse_box_header(buf, nesting_level, s, num_parsed_boxes, box_type, box_size, header_size) ==
  parse_box_content(buf, nesting_level, s, num_parsed_boxes, box_type, box_size,
                    header_size + (IF box_type \in FullBoxTypes THEN 4 ELSE 0))

\* box_size == 1: the 64-bit size (r) follows the type.
parse_box_size64(buf, nesting_level, num_parsed_boxes, box_type, r) ==
  IF r.err # "Ok" THEN BoxErr(r.err, r.s, num_parsed_boxes, box_type, 0)
  ELSE parse_box_header(buf, nesting_level, r.s, num_parsed_boxes, box_type,
                        Some(r.val), 16)
\* box_size == 0 taken as "to the end" at every nesting level.
parse_box_size_lenient(buf, nesting_level, s, num_parsed_boxes, size32, box_type) ==
  IF size32 = 1
  THEN parse_box_size64(buf, nesting_level, num_parsed_boxes, box_type,
                        read_u64(buf, s))
  ELSE parse_box_header(buf, nesting_level, s, num_parsed_boxes, box_type,
                        IF size32 = 0 THEN None ELSE Some(size32), 8)
\* box_size == 0: the box runs to the end, at the top level only.
parse_box_size(buf, nesting_level, s, num_parsed_boxes, size32, box_type) ==
  IF size32 = 1
  THEN parse_box_size64(buf, nesting_level, num_parsed_boxes, box_type,
                        read_u64(buf, s))
  ELSE IF size32 = 0 /\ nesting_level # 0
  THEN BoxErr("Invalid", s, num_parsed_boxes, box_type, 0)
  ELSE parse_box_header(buf, nesting_level, s, num_parsed_boxes, box_type,
                        IF size32 = 0 THEN None ELSE Some(size32), 8)

parse_box_type(buf, nesting_level, num_parsed_boxes, size32, r) ==
  IF r.err # "Ok" THEN BoxErr(r.err, r.s, num_parsed_boxes, <<>>, 0)
  ELSE parse_box_size(buf, nesting_level, r.s, num_parsed_boxes, size32, r.val)
parse_box_size32(buf, nesting_level, num_parsed_boxes, r) ==
  IF r.err # "Ok" THEN BoxErr(r.err, r.s, num_parsed_boxes, <<>>, 0)
  ELSE parse_box_type(buf, nesting_level, num_parsed_boxes, r.val,
                      read_4cc(buf, r.s))
parse_box(buf, nesting_level, stream, num_parsed_boxes) ==
  parse_box_size32(buf, nesting_level, num_parsed_boxes, read_u32(buf, stream))

(***************************************************************************)
(* The accumulator (InternalFeatures).  The fixed arrays with their        *)
(* num_ counters are sequences: num_tiles = Len(tiles), and so on.         *)
(***************************************************************************)
DefaultFeatures ==
  [width |-> 0, height |-> 0, bit_depth |-> 0, num_channels |-> 0,
   has_gainmap |-> FALSE, gainmap_item_id |-> 0,
   primary_item_id_location |-> 0, primary_item_id_bytes |-> 0]

DefaultInternalFeatures ==
  [has_primary_item |-> FALSE, has_alpha |-> FALSE,
   gainmap_property_index |-> 0, primary_item_id |-> 0,
   primary_item_features |-> DefaultFeatures,
   data_was_skipped |-> FALSE, tone_mapped_item_id |-> 0,
   iinf_parsed |-> FALSE, iref_parsed |-> FALSE,
   tiles |-> <<>>, props |-> <<>>, dim_props |-> <<>>, chan_props |-> <<>>]

\* The least element of a set of indices, 0 for the empty set: the first
\* record that a "for ... { if ... { ...; break } }" loop stops at.
first_of(hits) ==
  IF hits = {} THEN 0 ELSE CHOOSE i \in hits : \A j \in hits : i <= j
first_with_index(seq, property_index) ==
  first_of({i \in 1..Len(seq) : seq[i].property_index = property_index})

Found(done, f) == [done |-> done, f |-> f]

\* get_item_features, the body of the loop over props.  d is the dim_props
\* record looked up for the property (0: none, or not looked up), c the
\* chan_props record.  done is TRUE when the function returns Ok(()).
item_features_chan_set(g) ==
  Found(/\ g.primary_item_features.width # AVIFINFO_UNDEFINED
        /\ g.primary_item_features.height # AVIFINFO_UNDEFINED, g)
item_features_chan(f, c) ==
  IF c = 0 THEN Found(FALSE, f)
  ELSE item_features_chan_set(
         [f EXCEPT !.primary_item_features.bit_depth = f.chan_props[c].bit_depth,
                   !.primary_item_features.num_channels =
                      f.chan_props[c].num_channels])
item_features_dim_set(f, d, property_index) ==
  IF /\ d # 0
     /\ f.primary_item_features.bit_depth # AVIFINFO_UNDEFINED
     /\ f.primary_item_features.num_channels # AVIFINFO_UNDEFINED
  THEN Found(TRUE, f)
  ELSE item_features_chan(f,
         IF \/ f.primary_item_features.bit_depth = AVIFINFO_UNDEFINED
            \/ f.primary_item_features.num_channels = AVIFINFO_UNDEFINED
         THEN first_with_index(f.chan_props, property_index) ELSE 0)
item_features_dim(f, d, property_index) ==
  item_features_dim_set(
    IF d = 0 THEN f
    ELSE [f EXCEPT !.primary_item_features.width = f.dim_props[d].width,
                   !.primary_item_features.height = f.dim_props[d].height],
    d, property_index)
\* The dimensions of the primary item retrieved again when they are known.
item_features_of_prop_again(f, target_item_id, prop) ==
  IF prop.item_id # target_item_id THEN Found(FALSE, f)
  ELSE item_features_dim(f,
         IF target_item_id = f.primary_item_id
         THEN first_with_index(f.dim_props, prop.property_index) ELSE 0,
         prop.property_index)
\* "Retrieve the width and height of the primary item if not already done."
item_features_of_prop(f, target_item_id, prop) ==
  IF prop.item_id # target_item_id THEN Found(FALSE, f)
  ELSE item_features_dim(f,
         IF /\ target_item_id = f.primary_item_id
            /\ \/ f.primary_item_features.width = AVIFINFO_UNDEFINED
               \/ f.primary_item_features.height = AVIFINFO_UNDEFINED
         THEN first_with_index(f.dim_props, prop.property_index) ELSE 0,
         prop.property_index)

\* The loop over props: r is what the iteration at prop_item found.
RECURSIVE item_features_props(_, _, _)
item_features_props_next(r, target_item_id, prop_item) ==
  IF r.done THEN r
  ELSE item_features_props(r.f, target_item_id, prop_item + 1)
item_features_props(f, target_item_id, prop_item) ==
  IF prop_item > Len(f.props) THEN Found(FALSE, f)
  ELSE item_features_props_next(
         item_features_of_prop(f, target_item_id, f.props[prop_item]),
         target_item_id, prop_item)

\* Tiles looked into one level deeper.
tile_depth_allowed_deeper(tile_depth) == tile_depth < MaxTileDepth + 1
\* "if tile_depth < 3"
tile_depth_allowed(tile_depth) == tile_depth < MaxTileDepth

Item(err, f, depth) == [err |-> err, f |-> f, depth |-> depth]
max_depth(a, b) == IF a > b THEN a ELSE b

\* get_item_features(target_item_id, tile_depth): err is "Ok" or "NotFound";
\* depth is the largest tile_depth that the call, or a call nested in it,
\* was entered with.
RECURSIVE get_item_features(_, _, _)
RECURSIVE item_features_tiles(_, _, _, _)
\* The loop over tiles: r is what the nested call for the tile returned,
\* "Err(NotFound) => {} // Keep searching".
item_features_tiles_rest(r, rest) ==
  Item(rest.err, rest.f, max_depth(r.depth, rest.depth))
item_features_tiles_next(r, target_item_id, tile_depth, tile) ==
  IF r.err = "Ok" THEN r
  ELSE item_features_tiles_rest(
         r, item_features_tiles(r.f, target_item_id, tile_depth, tile + 1))
item_features_tiles(f, target_item_id, tile_depth, tile) ==
  IF tile > Len(f.tiles) THEN Item("NotFound", f, tile_depth)
  ELSE IF f.tiles[tile].parent_item_id # target_item_id
  THEN item_features_tiles(f, target_item_id, tile_depth, tile + 1)
  ELSE item_features_tiles_next(
         get_item_features(f, f.tiles[tile].tile_item_id, tile_depth + 1),
         target_item_id, tile_depth, tile)
item_features_after_props(p, target_item_id, tile_depth) ==
  IF p.done THEN Item("Ok", p.f, tile_depth)
  ELSE IF tile_depth_allowed(tile_depth)
  THEN item_features_tiles(p.f, target_item_id, tile_depth, 1)
  ELSE Item("NotFound", p.f, tile_depth)
get_item_features(f, target_item_id, tile_depth) ==
  item_features_after_props(item_features_props(f, target_item_id, 1),
                            target_item_id, tile_depth)

\* The gain map search of get_primary_item_features.  t is the first tile
\* of the tone mapped item with dimg_idx 1 (HEIF scheme), p the first
\* association of the gain map property (Adobe scheme); 0: none.
set_gainmap(f, item_id) ==
  [f EXCEPT !.primary_item_features.has_gainmap = TRUE,
            !.primary_item_features.gainmap_item_id = item_id]
gainmap_adobe(f, p) == IF p = 0 THEN f ELSE set_gainmap(f, f.props[p].item_id)
gainmap_heif(f, t) ==
  IF t # 0 THEN set_gainmap(f, f.tiles[t].tile_item_id)
  ELSE gainmap_adobe(f,
         IF ~f.primary_item_features.has_gainmap /\ f.gainmap_property_index > 0
         THEN first_of({p \in 1..Len(f.props) :
                          f.props[p].property_index = f.gainmap_property_index})
         ELSE 0)
find_gainmap(f) ==
  gainmap_heif(f,
    IF f.tone_mapped_item_id # AVIFINFO_UNDEFINED
    THEN first_of({t \in 1..Len(f.tiles) :
                     /\ f.tiles[t].parent_item_id = f.tone_mapped_item_id
                     /\ f.tiles[t].dimg_idx = 1})
    ELSE 0)

\* r is what get_item_features(primary_item_id, 0) returned.
primary_item_alpha(r) ==
  IF r.err # "Ok" THEN r
  ELSE IF r.f.has_alpha
  THEN Item("Ok", [r.f EXCEPT !.primary_item_features.num_channels = @ + 1],
            r.depth)
  ELSE r
\* The resolver not waiting for 'iinf' and 'iref'.
primary_item_join_eager(g) ==
  primary_item_alpha(get_item_features(g, g.primary_item_id, 0))
\* g is the accumulator after the gain map search.
primary_item_join(g) ==
  IF /\ ~g.primary_item_features.has_gainmap
     /\ \/ ~g.iinf_parsed
        \/ g.tone_mapped_item_id # AVIFINFO_UNDEFINED /\ ~g.iref_parsed
  THEN Item("NotFound", g, 0)
  ELSE primary_item_alpha(get_item_features(g, g.primary_item_id, 0))
get_primary_item_features(f) ==
  IF ~f.has_primary_item THEN Item("NotFound", f, 0)
  ELSE IF Len(f.dim_props) = 0 \/ Len(f.chan_props) = 0
  THEN Item("NotFound", f, 0)
  ELSE primary_item_join(find_gainmap(f))

(***************************************************************************)
(* The bodies of the boxes that the loops below dispatch on.  Each returns *)
(* the status and the accumulator.                                         *)
(***************************************************************************)
Res(err, f) == [err |-> err, f |-> f]
\* A record dropped without a trace.
mark_skipped_never(f) == f
\* "self.data_was_skipped = true"
mark_skipped(f) == [f EXCEPT !.data_was_skipped = TRUE]

\* What the resolver says after an 'ipma' or a 'dimg' box (e).
resolve(e) == IF e.err # "Ok" THEN e ELSE get_primary_item_features(e.f)

\* 'ispe': w and h are the reads of width and height.
parse_ispe_height(f, box_index, w, h) ==
  IF h.err # "Ok" THEN Res(h.err, f)
  ELSE IF w.val = 0 \/ h.val = 0 THEN Res("Invalid", f)
  ELSE IF Len(f.dim_props) < AVIFINFO_MAX_FEATURES
  THEN Res("Ok", [f EXCEPT !.dim_props = Append(@,
                   [property_index |-> box_index, width |-> w.val,
                    height |-> h.val])])
  ELSE Res("Ok", mark_skipped(f))
parse_ispe_width(buf, f, box_index, w) ==
  IF w.err # "Ok" THEN Res(w.err, f)
  ELSE parse_ispe_height(f, box_index, w, read_u32(buf, w.s))
parse_ispe(buf, f, box_stream, box_index) ==
  parse_ispe_width(buf, f, box_index, read_u32(buf, box_stream))

add_chan_prop(f, box_index, bit_depth, num_channels) ==
  IF Len(f.chan_props) < AVIFINFO_MAX_FEATURES
  THEN [f EXCEPT !.chan_props = Append(@,
         [property_index |-> box_index, bit_depth |-> bit_depth,
          num_channels |-> num_channels])]
  ELSE mark_skipped(f)

\* 'pixi': "for _ in 1..num_channels", every further channel has the same
\* depth; r is the read of a channel's depth.
RECURSIVE pixi_channels(_, _, _, _)
pixi_channel(buf, r, left, bit_depth) ==
  IF r.err # "Ok" THEN r.err
  ELSE IF r.val # bit_depth THEN "Invalid"
  ELSE pixi_channels(buf, r.s, left - 1, bit_depth)
pixi_channels(buf, s, left, bit_depth) ==
  IF left = 0 THEN "Ok" ELSE pixi_channel(buf, read_u8(buf, s), left, bit_depth)
\* "if bit_depth == 0 { return Err(Invalid) }"
pixi_bit_depth_valid(bit_depth) == bit_depth # 0
parse_pixi_record(f, box_index, num_channels, bit_depth, rest) ==
  IF rest # "Ok" THEN Res(rest, f)
  ELSE Res("Ok", add_chan_prop(f, box_index, bit_depth, num_channels))
parse_pixi_depth(buf, f, box_index, num_channels, b) ==
  IF b.err # "Ok" THEN Res(b.err, f)
  ELSE IF ~pixi_bit_depth_valid(b.val) THEN Res("Invalid", f)
  ELSE parse_pixi_record(f, box_index, num_channels, b.val,
                         pixi_channels(buf, b.s, num_channels - 1, b.val))
parse_pixi_channels(buf, f, box_index, c) ==
  IF c.err # "Ok" THEN Res(c.err, f)
  ELSE IF c.val = 0 \/ c.val > 3 THEN Res("Invalid", f)
  ELSE parse_pixi_depth(buf, f, box_index, c.val, read_u8(buf, c.s))
parse_pixi(buf, f, box_stream, box_index) ==
  parse_pixi_channels(buf, f, box_index, read_u8(buf, box_stream))

\* The bit depth of 'av1C' with twelve_bit read as sixteen.
av1C_bit_depth_wide(high_bitdepth, twelve_bit) ==
  IF high_bitdepth THEN (IF twelve_bit THEN 16 ELSE 10) ELSE 8
\* 'av1C': the third byte of the record carries the bits.
av1C_bit_depth(high_bitdepth, twelve_bit) ==
  IF high_bitdepth THEN (IF twelve_bit THEN 12 ELSE 10) ELSE 8
parse_av1C_bits(f, box_index, high_bitdepth, twelve_bit, monochrome) ==
  IF twelve_bit /\ ~high_bitdepth THEN Res("Invalid", f)
  ELSE Res("Ok", add_chan_prop(f, box_index,
                               av1C_bit_depth(high_bitdepth, twelve_bit),
                               IF monochrome THEN 1 ELSE 3))
parse_av1C_data(f, box_index, d) ==
  IF d.err # "Ok" THEN Res(d.err, f)
  ELSE parse_av1C_bits(f, box_index, (d.val \div 64) % 2 = 1,
                       (d.val \div 32) % 2 = 1, (d.val \div 16) % 2 = 1)
parse_av1C_skipped(buf, f, box_index, k) ==
  IF k.err # "Ok" THEN Res(k.err, f)
  ELSE parse_av1C_data(f, box_index, read_u8(buf, k.s))
parse_av1C(buf, f, box_stream, box_index) ==
  parse_av1C_skipped(buf, f, box_index, skip(box_stream, 2))

\* &data[..min(data.len(), str.len())] == str
starts_with(bytes, str) ==
  Len(bytes) >= Len(str) /\ SubSeq(bytes, 1, Len(str)) = str

\* 'auxC': r is the read of the first bytes of the box.
parse_auxC_urn(f, box_index, r) ==
  IF r.err # "Ok" THEN Res(r.err, f)
  ELSE IF starts_with(r.bytes, ALPHA_STR)
  THEN Res("Ok", [f EXCEPT !.has_alpha = TRUE])
  ELSE IF starts_with(r.bytes, GAINMAP_STR)
  THEN Res("Ok", [f EXCEPT !.gainmap_property_index = box_index])
  ELSE Res("Ok", f)
parse_auxC(buf, f, box, box_stream, box_index) ==
  parse_auxC_urn(f, box_index,
                 read(buf, box_stream, umin(box.content_size.v, Len(ALPHA_STR))))

\* The match on the box type in parse_ipco.
parse_property(buf, f, box, box_stream, box_index) ==
  IF box.box_type = ISPE THEN parse_ispe(buf, f, box_stream, box_index)
  ELSE IF box.box_type = PIXI THEN parse_pixi(buf, f, box_stream, box_index)
  ELSE IF box.box_type = AV1C THEN parse_av1C(buf, f, box_stream, box_index)
  ELSE IF box.box_type = AUXC THEN parse_auxC(buf, f, box, box_stream, box_index)
  ELSE Res("Ok", f)

\* 'ipma', the loop over the associations of one entry.  brk is TRUE when
\* a loop was left before its count ("Do not read garbage", or an error).
Assoc(err, f, s, brk) == [err |-> err, f |-> f, s |-> s, brk |-> brk]
add_prop(f, property_index, item_id) ==
  IF property_index <= AVIFINFO_MAX_VALUE /\ item_id <= AVIFINFO_MAX_VALUE
  THEN [f EXCEPT !.props = Append(@,
         [property_index |-> property_index, item_id |-> item_id])]
  ELSE mark_skipped(f)
RECURSIVE ipma_associations(_, _, _, _, _, _, _)
\* r is the read of the association's value; the essential bit is dropped.
ipma_association(buf, f, r, item_id, property, association_count, index_num_bytes) ==
  IF r.err # "Ok" THEN Assoc(r.err, f, r.s, TRUE)
  ELSE ipma_associations(
         buf,
         add_prop(f, r.val % (IF index_num_bytes = 2 THEN 32768 ELSE 128),
                  item_id),
         r.s, item_id, property + 1, association_count, index_num_bytes)
ipma_associations(buf, f, s, item_id, property, association_count, index_num_bytes) ==
  IF property >= association_count THEN Assoc("Ok", f, s, FALSE)
  ELSE IF property >= AVIFINFO_MAX_PROPS \/ Len(f.props) >= AVIFINFO_MAX_PROPS
  THEN Assoc("Ok", mark_skipped(f), s, TRUE)
  ELSE ipma_association(buf, f, read_uint(buf, s, index_num_bytes), item_id,
                        property, association_count, index_num_bytes)

\* 'ipma', the loop over the entries: id and c are the reads of item_id and
\* association_count, a is what the body of the loop left (its early
\* returns included, as a break with the error).
RECURSIVE ipma_entries(_, _, _, _, _, _, _)
ipma_entry_done(buf, a, entry, entry_count, id_num_bytes, index_num_bytes) ==
  IF a.err # "Ok" \/ a.brk THEN Res(a.err, a.f)
  ELSE ipma_entries(buf, a.f, a.s, entry + 1, entry_count, id_num_bytes,
                    index_num_bytes)
ipma_entry_count(buf, f, id, c, index_num_bytes) ==
  IF c.err # "Ok" THEN Assoc(c.err, f, c.s, TRUE)
  ELSE ipma_associations(buf, f, c.s, id.val, 0, c.val, index_num_bytes)
ipma_entry_id(buf, f, id, index_num_bytes) ==
  IF id.err # "Ok" THEN Assoc(id.err, f, id.s, TRUE)
  ELSE ipma_entry_count(buf, f, id, read_u8(buf, id.s), index_num_bytes)
ipma_entries(buf, f, s, entry, entry_count, id_num_bytes, index_num_bytes) ==
  IF entry >= entry_count THEN Res("Ok", f)
  ELSE IF entry >= AVIFINFO_MAX_PROPS \/ Len(f.props) >= AVIFINFO_MAX_PROPS
  THEN Res("Ok", mark_skipped(f))
  ELSE ipma_entry_done(
         buf,
         ipma_entry_id(buf, f, read_uint(buf, s, id_num_bytes),
                       index_num_bytes),
         entry, entry_count, id_num_bytes, index_num_bytes)

\* The 'ipma' arm of parse_iprp, the resolver call included.  n is the
\* read of entry_count.
parse_ipma_entries(buf, f, box, n) ==
  IF n.err # "Ok" THEN Res(n.err, f)
  ELSE resolve(ipma_entries(buf, f, n.s, 0, n.val,
                            IF box.version < 1 THEN 2 ELSE 4,
                            IF box.flags % 2 # 0 THEN 2 ELSE 1))
parse_ipma(buf, f, box, box_stream) ==
  parse_ipma_entries(buf, f, box, read_u32(buf, box_stream))

\* 'dimg', the loop over the references: to is the read of to_item_id.
add_tile(f, from_item_id, to_item_id, i) ==
  IF /\ from_item_id <= AVIFINFO_MAX_VALUE
     /\ to_item_id <= AVIFINFO_MAX_VALUE
     /\ Len(f.tiles) < AVIFINFO_MAX_TILES
  THEN [f EXCEPT !.tiles = Append(@,
         [tile_item_id |-> to_item_id, parent_item_id |-> from_item_id,
          dimg_idx |-> i])]
  ELSE mark_skipped(f)
\* a is what the body of the loop left: the tile is added before the next
\* reference is read.
RECURSIVE dimg_references(_, _, _, _, _, _, _)
dimg_reference_done(buf, a, from_item_id, i, reference_count, num_bytes_per_id) ==
  IF a.err # "Ok" THEN Res(a.err, a.f)
  ELSE dimg_references(buf, a.f, a.s, from_item_id, i + 1, reference_count,
                       num_bytes_per_id)
dimg_reference(f, to, from_item_id, i) ==
  IF to.err # "Ok" THEN Assoc(to.err, f, to.s, TRUE)
  ELSE Assoc("Ok", add_tile(f, from_item_id, to.val, i), to.s, FALSE)
dimg_references(buf, f, s, from_item_id, i, reference_count, num_bytes_per_id) ==
  IF i >= reference_count THEN Res("Ok", f)
  ELSE IF i >= AVIFINFO_MAX_TILES THEN Res("Ok", mark_skipped(f))
  ELSE dimg_reference_done(
         buf,
         dimg_reference(f, read_uint(buf, s, num_bytes_per_id), from_item_id, i),
         from_item_id, i, reference_count, num_bytes_per_id)

\* The 'dimg' arm of parse_iref, the resolver call included.  box is the
\* header of the 'dimg' box itself; from and c are the reads of
\* from_item_id and reference_count.
parse_dimg_count(buf, f, from, c, num_bytes_per_id) ==
  IF c.err # "Ok" THEN Res(c.err, f)
  ELSE resolve(dimg_references(buf, f, c.s, from.val, 0, c.val,
                               num_bytes_per_id))
parse_dimg_from(buf, f, from, num_bytes_per_id) ==
  IF from.err # "Ok" THEN Res(from.err, f)
  ELSE parse_dimg_count(buf, f, from, read_u16(buf, from.s), num_bytes_per_id)
parse_dimg_ids(buf, f, box_stream, num_bytes_per_id) ==
  parse_dimg_from(buf, f, read_uint(buf, box_stream, num_bytes_per_id),
                  num_bytes_per_id)
parse_dimg(buf, f, box, box_stream) ==
  parse_dimg_ids(buf, f, box_stream, IF box.version = 0 THEN 2 ELSE 4)

\* The 'infe' arm of parse_iinf: id is the read of item_id, k the skip of
\* item_protection_index, t the read of the item type.
parse_infe_type(f, id, t) ==
  IF t.err # "Ok" THEN Res(t.err, f)
  ELSE IF t.val # TMAP THEN Res("Ok", f)
  ELSE IF id.val <= AVIFINFO_MAX_VALUE
  THEN Res("Ok", [f EXCEPT !.tone_mapped_item_id = id.val])
  ELSE Res("Ok", mark_skipped(f))
parse_infe_skipped(buf, f, id, k) ==
  IF k.err # "Ok" THEN Res(k.err, f)
  ELSE parse_infe_type(f, id, read_4cc(buf, k.s))
parse_infe_id(buf, f, id) ==
  IF id.err # "Ok" THEN Res(id.err, f)
  ELSE parse_infe_skipped(buf, f, id, skip(id.s, 2))
parse_infe(buf, f, box, box_stream) ==
  parse_infe_id(buf, f,
                read_uint(buf, box_stream, IF box.version = 2 THEN 2 ELSE 4))

\* The location of the id counted from the start of 'meta'.
pitm_location_in_meta(stream_offset, box_header_size) == Some(box_header_size)
\* The 'pitm' arm of parse_meta: location is
\* stream_offset.checked_add(box_header_size), id the read of the id.
pitm_location(stream_offset, box_header_size) ==
  checked_add(stream_offset, box_header_size)
parse_pitm_id(f, location, num_bytes_per_id, id) ==
  IF id.err # "Ok" THEN Res(id.err, f)
  ELSE IF id.val > AVIFINFO_MAX_VALUE THEN Res("Aborted", f)
  ELSE Res("Ok",
           [f EXCEPT !.has_primary_item = TRUE,
                     !.primary_item_id = id.val,
                     !.primary_item_features.primary_item_id_location = location,
                     !.primary_item_features.primary_item_id_bytes =
                        num_bytes_per_id])
parse_pitm_located(buf, f, box_stream, location, num_bytes_per_id) ==
  IF ~location.some THEN Res("Aborted", f)
  ELSE parse_pitm_id(f, location.v, num_bytes_per_id,
                     read_uint(buf, box_stream, num_bytes_per_id))
parse_pitm(buf, f, box, box_stream, stream_offset, box_header_size) ==
  parse_pitm_located(buf, f, box_stream,
                     pitm_location(stream_offset, box_header_size),
                     IF box.version = 0 THEN 2 ELSE 4)

\* impl From<InternalError> for AvifInfoError
public_error(err) ==
  IF err \in {"NotFound", "Truncated"} THEN "NotEnoughData"
  ELSE IF err = "Aborted" THEN "TooComplex"
  ELSE IF err = "Invalid" THEN "InvalidFile"
  ELSE "Ok"

(***************************************************************************)
(* The state.                                                              *)
(*   data    the buffer given to the call in progress (or the last call)   *)
(*   api     "get_features", "identify" or "none" before the first call    *)
(*   stack   the call stack: one frame per active parse_* function, with   *)
(*           its stream and its loop variables                             *)
(*   ret     the value a function has just returned to its caller, or      *)
(*           "none"                                                        *)
(*   feat    the accumulator of the call (InternalFeatures)                *)
(*   num_parsed_boxes   the shared count of parsed boxes                   *)
(*   result  what the call returned: [status, features]; status "none"     *)
(*           while the call runs                                           *)
(*   prev    the buffer and result of the preceding call                   *)
(*   headers, last_box   history: how many headers parse_box has returned  *)
(*           in this call, what its last call read and returned, and       *)
(*           whether parse_meta has since reached the end of its box       *)
(*   tick    the parity of the number of steps executed: a step of the     *)
(*           program takes time even when it leaves the rest unchanged     *)
(***************************************************************************)
VARIABLES data, api, stack, ret, feat, num_parsed_boxes, result, prev,
          headers, last_box, tick

vars == <<data, api, stack, ret, feat, num_parsed_boxes, result, prev,
          headers, last_box, tick>>

Frame(fn, stream, nesting_level) ==
  [fn |-> fn, stream |-> stream, nesting_level |-> nesting_level,
   stream_offset |-> 0, box_index |-> 1, started |-> FALSE,
   entry |-> 0, entry_count |-> 0, box_version |-> 0, content_size |-> 0]

NoResult == [status |-> "none", features |-> DefaultFeatures]
NoPrev == [api |-> "none", data |-> Plain(<<>>), result |-> NoResult]
NoHeaders == [all |-> 0, counted |-> 0]
\* History of the resolver: whether the last box read led to a call of
\* it, what it returned (e) and the largest tile_depth that
\* get_item_features was entered with (0 when it was not entered).
NoJoin == [called |-> FALSE, err |-> "none", depth |-> 0]
Join(e) ==
  IF "depth" \in DOMAIN e
  THEN [called |-> TRUE, err |-> e.err, depth |-> e.depth] ELSE NoJoin
NoLastBox == [raw |-> <<>>, version |-> 0, err |-> "none", box_type |-> <<>>,
              nesting_level |-> 0, meta_ended |-> FALSE, join |-> NoJoin]

Top == stack[Len(stack)]
Running(fn) == stack # <<>> /\ ret = "none" /\ Top.fn = fn
Idle == stack = <<>>
Done == Idle /\ result.status # "none"

\* A function that reads from a copy of its stream.
advance_copy(fr, s) == fr
\* The stream of a function after it has read from it.
advance(fr, s) == [fr EXCEPT !.stream = s]
\* The function goes on with its loop.
Continue(fr) ==
  /\ stack' = [stack EXCEPT ![Len(stack)] = fr]
  /\ ret' = "none"
\* The function returns err to its caller.
Return(fr, err) ==
  /\ stack' = [stack EXCEPT ![Len(stack)] = fr]
  /\ ret' = err
\* The function calls callee.
Call(fr, callee) ==
  /\ stack' = Append([stack EXCEPT ![Len(stack)] = fr], callee)
  /\ ret' = "none"
\* "Ok(()) => return Ok(()), Err(NotFound) => {}, Err(error) => return
\* Err(error)": what a loop does with the status of the resolver.
KeepSearching(fr, err) ==
  IF err = "NotFound" THEN Continue(fr) ELSE Return(fr, err)

\* "let box_features = parse_box(...)?; let mut box_stream =
\* stream.substream(box_features.content_size)?;", the two statements that
\* every loop over boxes starts with.  parsed: parse_box returned a header;
\* header_size: num_read_bytes() between the two statements; child: the
\* box_stream.
box_substream(pb, sub) ==
  [err |-> sub.err, s |-> sub.s, n |-> pb.n, box |-> pb.box, raw |-> pb.raw,
   version |-> pb.version, parsed |-> TRUE,
   header_size |-> num_read_bytes(pb.s), child |-> sub.child]
\* parse_box alone, as parse_ftyp calls it.
box_header(pb) ==
  [err |-> pb.err, s |-> pb.s, n |-> pb.n, box |-> pb.box, raw |-> pb.raw,
   version |-> pb.version, parsed |-> pb.err = "Ok",
   header_size |-> num_read_bytes(pb.s), child |-> pb.s]
box_and_stream(pb) ==
  IF pb.err # "Ok" THEN box_header(pb)
  ELSE box_substream(pb, substream(pb.s, pb.box.content_size))
next_box(buf, nesting_level, stream, n) ==
  box_and_stream(parse_box(buf, nesting_level, stream, n))

HeaderCap == MaxBoxRun + 2
\* History of the parse_box calls, and the count they share.  The history
\* stops counting at HeaderCap, which no call on the inputs below reaches.
Observed(nb, nesting_level, join) ==
  /\ num_parsed_boxes' = nb.n
  /\ headers' =
       IF ~nb.parsed \/ headers.all >= HeaderCap THEN headers
       ELSE [all |-> headers.all + 1,
             counted |-> headers.counted
                + (IF nesting_level = 0 /\ nb.raw = FTYP THEN 0 ELSE 1)]
  /\ last_box' = [raw |-> nb.raw, version |-> nb.version,
                  err |-> IF nb.parsed THEN "Ok" ELSE nb.err,
                  box_type |-> nb.box.box_type, nesting_level |-> nesting_level,
                  meta_ended |-> FALSE, join |-> join]
Observe(nb, nesting_level) == Observed(nb, nesting_level, NoJoin)

Init ==
  /\ data = Plain(<<>>)
  /\ api = "none"
  /\ stack = <<>>
  /\ ret = "none"
  /\ feat = DefaultInternalFeatures
  /\ num_parsed_boxes = 0
  /\ result = NoResult
  /\ prev = NoPrev
  /\ headers = NoHeaders
  /\ last_box = NoLastBox
  /\ tick = 0

\* A public entry point is called on buf: a fresh accumulator, a fresh
\* count, and a stream over the whole buffer with no declared size.
Enter(name, fn, buf) ==
  /\ Idle
  /\ prev' = [api |-> api, data |-> data, result |-> result]
  /\ data' = buf
  /\ api' = name
  /\ stack' = <<Frame(fn, Stream(0, DataLen(buf), None), 0)>>
  /\ ret' = "none"
  /\ feat' = DefaultInternalFeatures
  /\ num_parsed_boxes' = 0
  /\ result' = NoResult
  /\ headers' = NoHeaders
  /\ last_box' = NoLastBox
  /\ tick' = 1 - tick

\* One iteration of the loop of parse_file.
parse_file_box(fr, nb) ==
  /\ Observe(nb, 0)
  /\ IF nb.err # "Ok" THEN Return(advance(fr, nb.s), nb.err)
     ELSE IF nb.box.box_type = META
     THEN Call(advance(fr, nb.s),
               [Frame("parse_meta", nb.child, 1) EXCEPT
                  !.stream_offset = nb.header_size])
     ELSE IF ~nb.box.content_size.some
     THEN Return(advance(fr, nb.s), "Invalid")
     ELSE Continue(advance(fr, nb.s))
parse_file ==
  /\ Running("parse_file")
  /\ tick' = 1 - tick
  /\ parse_file_box(Top, next_box(data, 0, Top.stream, num_parsed_boxes))
  /\ UNCHANGED <<data, api, feat, result, prev>>

\* The end of parse_meta that reports, as the other loops do, that nothing
\* was found.
end_of_meta_not_found(data_was_skipped) == "NotFound"
\* The end of parse_meta that takes every unfinished parse for invalid.
end_of_meta_invalid(data_was_skipped) == "Invalid"
\* "Err(if self.data_was_skipped { Aborted } else { Invalid })"
end_of_meta(data_was_skipped) ==
  IF data_was_skipped THEN "Aborted" ELSE "Invalid"

\* One iteration of the loop of parse_meta, or its end.
parse_meta_pitm(fr, p) ==
  /\ feat' = p.f
  /\ IF p.err = "Ok" THEN Continue(fr) ELSE Return(fr, p.err)
parse_meta_call(fr, nb, fn) ==
  /\ feat' = feat
  /\ Call(advance(fr, nb.s),
          [Frame(fn, nb.child, fr.nesting_level + 1) EXCEPT
             !.box_version = nb.box.version])
parse_meta_box(fr, nb) ==
  /\ Observe(nb, fr.nesting_level)
  /\ IF nb.err # "Ok" THEN Return(advance(fr, nb.s), nb.err) /\ feat' = feat
     ELSE IF nb.box.box_type = PITM
     THEN parse_meta_pitm(advance(fr, nb.s),
                          parse_pitm(data, feat, nb.box, nb.child,
                                     fr.stream_offset, nb.header_size))
     ELSE IF nb.box.box_type = IPRP THEN parse_meta_call(fr, nb, "parse_iprp")
     ELSE IF nb.box.box_type = IREF THEN parse_meta_call(fr, nb, "parse_iref")
     ELSE IF nb.box.box_type = IINF THEN parse_meta_call(fr, nb, "parse_iinf")
     ELSE Continue(advance(fr, nb.s)) /\ feat' = feat
parse_meta ==
  /\ Running("parse_meta")
  /\ tick' = 1 - tick
  /\ IF ~has_more_bytes(Top.stream)
     THEN /\ Return(Top, end_of_meta(feat.data_was_skipped))
          /\ last_box' = [last_box EXCEPT !.meta_ended = TRUE]
          /\ UNCHANGED <<feat, num_parsed_boxes, headers>>
     ELSE parse_meta_box(Top, next_box(data, Top.nesting_level, Top.stream,
                                       num_parsed_boxes))
  /\ UNCHANGED <<data, api, result, prev>>

\* One iteration of the loop of parse_iprp, or its end.
parse_iprp_ipma(fr, a) == feat' = a.f /\ KeepSearching(fr, a.err)
parse_iprp_box(fr, nb) ==
  /\ Observed(nb, fr.nesting_level,
              IF nb.err = "Ok" /\ nb.box.box_type = IPMA
              THEN Join(parse_ipma(data, feat, nb.box, nb.child)) ELSE NoJoin)
  /\ IF nb.err # "Ok" THEN Return(advance(fr, nb.s), nb.err) /\ feat' = feat
     ELSE IF nb.box.box_type = IPCO
     THEN /\ Call(advance(fr, nb.s),
                  Frame("parse_ipco", nb.child, fr.nesting_level + 1))
          /\ feat' = feat
     ELSE IF nb.box.box_type = IPMA
     THEN parse_iprp_ipma(advance(fr, nb.s),
                          parse_ipma(data, feat, nb.box, nb.child))
     ELSE Continue(advance(fr, nb.s)) /\ feat' = feat
parse_iprp ==
  /\ Running("parse_iprp")
  /\ tick' = 1 - tick
  /\ IF ~has_more_bytes(Top.stream)
     THEN /\ Return(Top, "NotFound")
          /\ UNCHANGED <<feat, num_parsed_boxes, headers, last_box>>
     ELSE parse_iprp_box(Top, next_box(data, Top.nesting_level, Top.stream,
                                       num_parsed_boxes))
  /\ UNCHANGED <<data, api, result, prev>>

\* One iteration of the loop of parse_ipco, or its end.  q is what the
\* body of the property left.
parse_ipco_property(fr, q) ==
  IF q.err # "Ok" THEN Return(fr, q.err) /\ feat' = q.f
  ELSE IF fr.box_index = AVIFINFO_MAX_VALUE
  THEN Return(fr, "NotFound") /\ feat' = mark_skipped(q.f)
  ELSE Continue([fr EXCEPT !.box_index = @ + 1]) /\ feat' = q.f
parse_ipco_box(fr, nb) ==
  /\ Observe(nb, fr.nesting_level)
  /\ IF nb.err # "Ok" THEN Return(advance(fr, nb.s), nb.err) /\ feat' = feat
     ELSE parse_ipco_property(advance(fr, nb.s),
                              parse_property(data, feat, nb.box, nb.child,
                                             fr.box_index))
parse_ipco ==
  /\ Running("parse_ipco")
  /\ tick' = 1 - tick
  /\ IF ~has_more_bytes(Top.stream)
     THEN /\ Return(Top, "NotFound")
          /\ UNCHANGED <<feat, num_parsed_boxes, headers, last_box>>
     ELSE parse_ipco_box(Top, next_box(data, Top.nesting_level, Top.stream,
                                       num_parsed_boxes))
  /\ UNCHANGED <<data, api, result, prev>>

\* parse_iref: its first statement, then one iteration of its loop per
\* step, or its end.
parse_iref_dimg(fr, d) == feat' = d.f /\ KeepSearching(fr, d.err)
parse_iref_box(fr, nb) ==
  /\ Observed(nb, fr.nesting_level,
              IF nb.err = "Ok" /\ nb.box.box_type = DIMG
              THEN Join(parse_dimg(data, feat, nb.box, nb.child)) ELSE NoJoin)
  /\ IF nb.err # "Ok" THEN Return(advance(fr, nb.s), nb.err) /\ feat' = feat
     ELSE IF nb.box.box_type = DIMG
     THEN parse_iref_dimg(advance(fr, nb.s),
                          parse_dimg(data, feat, nb.box, nb.child))
     ELSE Continue(advance(fr, nb.s)) /\ feat' = feat
parse_iref ==
  /\ Running("parse_iref")
  /\ tick' = 1 - tick
  /\ IF ~Top.started
     THEN /\ Continue([Top EXCEPT !.started = TRUE])
          /\ feat' = [feat EXCEPT !.iref_parsed = TRUE]
          /\ UNCHANGED <<num_parsed_boxes, headers, last_box>>
     ELSE IF ~has_more_bytes(Top.stream)
     THEN /\ Return(Top, "NotFound")
          /\ UNCHANGED <<feat, num_parsed_boxes, headers, last_box>>
     ELSE parse_iref_box(Top, next_box(data, Top.nesting_level, Top.stream,
                                       num_parsed_boxes))
  /\ UNCHANGED <<data, api, result, prev>>

\* parse_iinf: its statements before the loop, then one iteration of the
\* loop over the announced entries per step, or its end.  n is the read of
\* entry_count, e what the body of the entry left.
parse_iinf_count(fr, n) ==
  IF n.err # "Ok" THEN Return(advance(fr, n.s), n.err)
  ELSE Continue([fr EXCEPT !.started = TRUE, !.stream = n.s,
                           !.entry_count = n.val])
parse_iinf_entry(fr, e) ==
  /\ feat' = e.f
  /\ IF e.err # "Ok" THEN Return(fr, e.err)
     ELSE IF ~has_more_bytes(fr.stream) THEN Return(fr, "NotFound")
     ELSE Continue([fr EXCEPT !.entry = @ + 1])
parse_iinf_box(fr, nb) ==
  /\ Observe(nb, fr.nesting_level)
  /\ IF nb.err # "Ok" THEN Return(advance(fr, nb.s), nb.err) /\ feat' = feat
     ELSE parse_iinf_entry(advance(fr, nb.s),
                           IF nb.box.box_type = INFE
                           THEN parse_infe(data, feat, nb.box, nb.child)
                           ELSE Res("Ok", feat))
parse_iinf ==
  /\ Running("parse_iinf")
  /\ tick' = 1 - tick
  /\ IF ~Top.started
     THEN /\ feat' = [feat EXCEPT !.iinf_parsed = TRUE]
          /\ parse_iinf_count(Top, read_uint(data, Top.stream,
                                             IF Top.box_version = 0 THEN 2 ELSE 4))
          /\ UNCHANGED <<num_parsed_boxes, headers, last_box>>
     ELSE IF Top.entry >= Top.entry_count
     THEN /\ Return(Top, "NotFound")
          /\ UNCHANGED <<feat, num_parsed_boxes, headers, last_box>>
     ELSE parse_iinf_box(Top, next_box(data, Top.nesting_level, Top.stream,
                                       num_parsed_boxes))
  /\ UNCHANGED <<data, api, result, prev>>

\* The limit of parse_ftyp taken one brand early.
brand_limit_early(i) == i >= MaxBrandIndex
\* "if i > 32 { return Err(Aborted) }"
brand_limit_reached(i) == i > MaxBrandIndex

\* parse_ftyp: the header and the checks before the loop, then one
\* iteration of the loop over the brands per step, or its end.  The loop
\* runs while entry < content_size / 4.
parse_ftyp_header(fr, pb) ==
  /\ Observe(box_header(pb), 0)
  /\ IF pb.err # "Ok" THEN Return(advance(fr, pb.s), pb.err)
     ELSE IF pb.box.box_type # FTYP THEN Return(advance(fr, pb.s), "Invalid")
     ELSE IF ~pb.box.content_size.some THEN Return(advance(fr, pb.s), "Invalid")
     ELSE IF ult(pb.box.content_size.v, 8)
     THEN Return(advance(fr, pb.s), "Invalid")
     ELSE Continue([fr EXCEPT !.stream = pb.s, !.started = TRUE,
                              !.content_size = pb.box.content_size.v])
\* The matching brand: the rest of the box is skipped (k).
parse_ftyp_found(fr, k) == Return(advance(fr, k.s), k.err)
parse_ftyp_brand(fr, i, brand) ==
  IF brand.err # "Ok" THEN Return(advance(fr, brand.s), brand.err)
  ELSE IF i = 1 THEN Continue([fr EXCEPT !.stream = brand.s, !.entry = i + 1])
  ELSE IF brand.val = AVIF \/ brand.val = AVIS
  THEN parse_ftyp_found(fr, skip(brand.s, fr.content_size - (i * 4 + 4)))
  ELSE IF brand_limit_reached(i) THEN Return(advance(fr, brand.s), "Aborted")
  ELSE Continue([fr EXCEPT !.stream = brand.s, !.entry = i + 1])
parse_ftyp ==
  /\ Running("parse_ftyp")
  /\ tick' = 1 - tick
  /\ IF ~Top.started
     THEN parse_ftyp_header(Top, parse_box(data, 0, Top.stream, num_parsed_boxes))
     ELSE /\ UNCHANGED <<num_parsed_boxes, headers, last_box>>
          /\ IF ~ult(Top.entry * 4 + 3, Top.content_size)
             THEN Return(Top, "Invalid")
             ELSE parse_ftyp_brand(Top, Top.entry, read_4cc(data, Top.stream))
  /\ UNCHANGED <<data, api, feat, result, prev>>

\* A parse_* function has returned to the parse_* function that called it:
\* parse_meta and parse_iprp keep searching on NotFound and return anything
\* else; parse_file returns what parse_meta returned.
callee_returns ==
  /\ Len(stack) >= 2
  /\ tick' = 1 - tick
  /\ ret # "none"
  /\ stack' = SubSeq(stack, 1, Len(stack) - 1)
  /\ ret' = IF ret = "NotFound" /\ stack[Len(stack) - 1].fn # "parse_file"
            THEN "none" ELSE ret
  /\ UNCHANGED <<data, api, feat, num_parsed_boxes, result, prev, headers,
                 last_box>>

\* The public entry point returns: get_features hands out
\* primary_item_features on Ok, identify hands out nothing.
api_returns ==
  /\ Len(stack) = 1
  /\ tick' = 1 - tick
  /\ ret # "none"
  /\ stack' = <<>>
  /\ ret' = "none"
  /\ result' = [status |-> public_error(ret),
                features |-> IF ret = "Ok" /\ api = "get_features"
                             THEN feat.primary_item_features
                             ELSE DefaultFeatures]
  /\ UNCHANGED <<data, api, feat, num_parsed_boxes, prev, headers, last_box>>

(***************************************************************************)
(* Input buffers.  The encoders below write the layouts that the parser    *)
(* reads: big-endian integers, boxes with 32-bit or 64-bit sizes, full     *)
(* boxes, and the boxes of a small AVIF file.                              *)
(***************************************************************************)
U16(n) == <<n \div 256, n % 256>>
U24(n) == <<n \div 65536, (n \div 256) % 256, n % 256>>
U32(n) == <<n \div 16777216, (n \div 65536) % 256, (n \div 256) % 256, n % 256>>
U64(n) == <<0, 0, 0, 0>> \o U32(n)
\* The 64-bit size 2^64 - k, for 1 <= k <= 256.
U64Top(k) == <<255, 255, 255, 255, 255, 255, 255, 256 - k>>

RECURSIVE Flatten(_)
Flatten(seqs) == IF seqs = <<>> THEN <<>> ELSE Head(seqs) \o Flatten(Tail(seqs))

Box(box_type, payload) == U32(8 + Len(payload)) \o box_type \o payload
Box64(box_type, payload) ==
  U32(1) \o box_type \o U64(16 + Len(payload)) \o payload
FullBox(box_type, version, flags, payload) ==
  Box(box_type, <<version>> \o U24(flags) \o payload)
FullBox64(box_type, version, flags, payload) ==
  Box64(box_type, <<version>> \o U24(flags) \o payload)

Ftyp(words) == Box(FTYP, Flatten(words))
Ispe(width, height) == FullBox(ISPE, 0, 0, U32(width) \o U32(height))
Pixi(num_channels, bit_depth) ==
  FullBox(PIXI, 0, 0, <<num_channels>> \o [i \in 1..num_channels |-> bit_depth])
Av1C(third_byte) == Box(AV1C, <<129, 0, third_byte, 0>>)
AuxC(urn) == FullBox(AUXC, 0, 0, urn)
\* entries: a sequence of [id, props], props a sequence of property indices.
Ipma(entries) ==
  FullBox(IPMA, 0, 0,
          U32(Len(entries)) \o
          Flatten([e \in 1..Len(entries) |->
                     U16(entries[e].id) \o <<Len(entries[e].props)>>
                       \o entries[e].props]))
Infe(item_id, item_type) ==
  FullBox(INFE, 2, 0, U16(item_id) \o U16(0) \o item_type)
Iinf(infes) == FullBox(IINF, 0, 0, U16(Len(infes)) \o Flatten(infes))
Dimg(from_item_id, to_item_ids) ==
  Box(DIMG, U16(from_item_id) \o U16(Len(to_item_ids))
              \o Flatten([i \in 1..Len(to_item_ids) |-> U16(to_item_ids[i])]))
Iref(dimgs) == FullBox(IREF, 0, 0, Flatten(dimgs))
Pitm(version, item_id, size64) ==
  IF size64
  THEN FullBox64(PITM, version, 0,
                 IF version = 0 THEN U16(item_id) ELSE U32(item_id))
  ELSE FullBox(PITM, version, 0,
               IF version = 0 THEN U16(item_id) ELSE U32(item_id))

\* A 'meta' box around children: its size field is exact ("exact": 32-bit,
\* "size64": 64-bit), 0 ("zero": to the end of the file), larger than the
\* file ("over"), or 2^64 - 1 ("top").
Meta(mode, children) ==
  IF mode = "exact" THEN Box(META, <<0, 0, 0, 0>> \o children)
  ELSE IF mode = "size64" THEN Box64(META, <<0, 0, 0, 0>> \o children)
  ELSE IF mode = "zero" THEN U32(0) \o META \o <<0, 0, 0, 0>> \o children
  ELSE IF mode = "over"
  THEN U32(12 + Len(children) + OverSize) \o META \o <<0, 0, 0, 0>> \o children
  ELSE U32(1) \o META \o U64Top(1) \o <<0, 0, 0, 0>> \o children

\* The file described by p:
\*   ftyp      a 'ftyp' box comes first
\*   pre       number of 'free' boxes before 'meta'
\*   meta      how the size of 'meta' is declared
\*   pitm_version, pitm64   version and size width of 'pitm'
\*   chan      "pixi" (depth p.depth) or "av1C" (third byte p.depth)
\*   alpha     an alpha 'auxC' property is present
\*   layout    "single": the primary item carries ispe and the channel
\*             property; "tiles": the channel property is on its tile;
\*             "tmap": a tone-mapped item with a gain map as second input;
\*             "adobe": a gain map 'auxC' property on item 2
\*   tail      a 'mdat' box follows 'meta'
FileChan(p) == IF p.chan = "pixi" THEN Pixi(3, p.depth) ELSE Av1C(p.depth)
FileAux(p) ==
  IF p.alpha THEN AuxC(ALPHA_STR)
  ELSE IF p.layout = "adobe" THEN AuxC(GAINMAP_STR) ELSE <<>>
FileIpma(p) ==
  IF p.layout = "tiles"
  THEN Ipma(<<[id |-> 1, props |-> <<1>>], [id |-> 2, props |-> <<2>>]>>)
  ELSE IF p.layout = "adobe"
  THEN Ipma(<<[id |-> 1, props |-> <<1, 130>>], [id |-> 2, props |-> <<3>>]>>)
  ELSE Ipma(<<[id |-> 1, props |-> <<1, 130>>]>>)
FileIinf(p) ==
  IF p.layout = "tmap" THEN Iinf(<<Infe(1, AV01), Infe(3, TMAP)>>)
  ELSE Iinf(<<Infe(1, AV01)>>)
FileIref(p) ==
  IF p.layout = "tiles" THEN Iref(<<Dimg(1, <<2>>)>>)
  ELSE IF p.layout = "tmap" THEN Iref(<<Dimg(3, <<1, 2>>)>>)
  ELSE <<>>
FileMeta(p) ==
  Meta(p.meta,
       Pitm(p.pitm_version, 1, p.pitm64) \o FileIinf(p) \o FileIref(p)
         \o Box(IPRP, Box(IPCO, Ispe(12, 34) \o FileChan(p) \o FileAux(p))
                        \o FileIpma(p)))
AvifFile(p) ==
  (IF p.ftyp THEN Ftyp(<<AVIF, U32(0), MIF1>>) ELSE <<>>)
    \o Flatten([i \in 1..p.pre |-> Box(FREE, <<i>>)])
    \o FileMeta(p)
    \o (IF p.tail THEN Box(MDAT, <<0>>) ELSE <<>>)

DefaultFile ==
  [ftyp |-> TRUE, pre |-> 0, meta |-> "exact", pitm_version |-> 0,
   pitm64 |-> FALSE, chan |-> "pixi", depth |-> 8, alpha |-> FALSE,
   layout |-> "single", tail |-> TRUE]

FileParams ==
  {[DefaultFile EXCEPT !.meta = m, !.pitm_version = v, !.pitm64 = (v = 1),
                       !.pre = n] :
     m \in {"exact", "size64"}, v \in {0, 1}, n \in {0, MaxPre}}
  \cup {[DefaultFile EXCEPT !.meta = m, !.tail = FALSE] : m \in {"zero", "over"}}
  \cup {[DefaultFile EXCEPT !.meta = "top", !.tail = FALSE, !.ftyp = f] :
          f \in BOOLEAN}
  \cup {[DefaultFile EXCEPT !.ftyp = FALSE]}
  \cup {[DefaultFile EXCEPT !.depth = d] : d \in {10, 16}}
  \cup {[DefaultFile EXCEPT !.chan = "av1C", !.depth = b] : b \in {0, 32, 64, 96}}
  \cup {[DefaultFile EXCEPT !.alpha = TRUE]}
  \cup {[DefaultFile EXCEPT !.layout = l] : l \in {"tiles", "tmap", "adobe"}}

AvifFiles == {Plain(AvifFile(p)) : p \in FileParams}

\* A 'ftyp' box of n words whose words are 'mif1', except word 1 (the minor
\* version, 0) and word at, which is brand.  at = n: no word is brand.
FtypWords(n, at, brand) ==
  [i \in 1..n |-> IF i - 1 = at THEN brand ELSE IF i = 2 THEN U32(0) ELSE MIF1]
FtypLengths == {2, 3, 4} \cup ((MaxBrandIndex + 1)..MaxWords)
FtypPlaces(n) ==
  {at \in 0..n : at <= 3 \/ at >= MaxBrandIndex - 1 \/ at = n}
FtypFiles ==
  {Plain(Ftyp(FtypWords(nat[1], nat[2], brand))) :
     nat \in {x \in FtypLengths \X (0..MaxWords) : x[2] \in FtypPlaces(x[1])},
     brand \in {AVIF, AVIS}}
\* Malformed first boxes: not a 'ftyp', a 'ftyp' to the end of the file, a
\* 'ftyp' smaller than its header, a 64-bit 'ftyp', a body that is not a
\* multiple of four bytes.
OddFtypFiles ==
  {Plain(Box(FREE, AVIF \o U32(0))),
   Plain(U32(0) \o FTYP \o AVIF \o U32(0)),
   Plain(U32(4) \o FTYP \o AVIF \o U32(0)),
   Plain(Box(FTYP, AVIF)),
   Plain(Box64(FTYP, MIF1 \o U32(0) \o AVIS)),
   Plain(Box(FTYP, MIF1 \o U32(0) \o <<1, 2>> \o AVIF)),
   Plain(Box(FTYP, MIF1 \o U32(0) \o <<1, 2, 3>>))}

\* A valid 'ftyp' followed by n empty boxes of one type (too_many_boxes in
\* the tests), and n empty 'ftyp' boxes.
RunHead == Ftyp(<<AVIF, U32(0)>>)
BoxRuns ==
  {Buffer(RunHead, Box(ABCD, <<>>), n) :
     n \in {0, 1, AVIFINFO_MAX_NUM_BOXES - 1, AVIFINFO_MAX_NUM_BOXES, MaxBoxRun}}
  \cup {Buffer(RunHead, Box(PITM, <<>>), 1)}
FtypRuns == {Buffer(<<>>, Box(FTYP, <<>>), MaxBoxRun)}

\* Boxes whose 64-bit size is close to 2^64.
TopFiles == {Plain(U32(1) \o FREE \o U64Top(k)) : k \in {1, 5}}

\* A file whose 'meta' box, of exact size, holds children.
Iprp(properties, ipma) == Box(IPRP, Box(IPCO, properties) \o ipma)
MetaFile(children) ==
  Ftyp(<<AVIF, U32(0), MIF1>>) \o Meta("exact", children) \o Box(MDAT, <<0>>)

\* Files whose 'meta' box ends before the features are known: the primary
\* item has no 'ispe'; the same with a tone-mapped item whose id does not
\* fit the accumulator.
NoIspeFile(infes) ==
  MetaFile(Pitm(0, 1, FALSE) \o Iinf(infes)
             \o Iprp(Pixi(3, 8), Ipma(<<[id |-> 1, props |-> <<1>>]>>)))
BrokenFiles ==
  {Plain(NoIspeFile(<<Infe(1, AV01)>>)),
   Plain(NoIspeFile(<<Infe(1, AV01), Infe(AVIFINFO_MAX_VALUE + 1, TMAP)>>))}

\* A box with its 32-bit size field set to 0 ("runs to the end").
ToEnd(box) == U32(0) \o SubSeq(box, 5, Len(box))
\* Files with such a box: the 'ispe' property, 'pitm', 'ipco', 'infe' and
\* 'dimg'; the 'ftyp' box, a 'free' box before 'meta', a 'meta' box of
\* version 1; and the 'mdat' box behind a complete 'meta' box.
SizeZeroChildren ==
  {Pitm(0, 1, FALSE) \o Iinf(<<Infe(1, AV01)>>)
     \o Iprp(ToEnd(Ispe(12, 34)) \o Pixi(3, 8),
             Ipma(<<[id |-> 1, props |-> <<1, 130>>]>>)),
   ToEnd(Pitm(0, 1, FALSE)),
   Pitm(0, 1, FALSE) \o Box(IPRP, ToEnd(Box(IPCO, Ispe(12, 34)))),
   Pitm(0, 1, FALSE) \o Iinf(<<ToEnd(Infe(1, AV01))>>),
   Pitm(0, 1, FALSE) \o Iref(<<ToEnd(Dimg(1, <<2>>))>>)}
SizeZeroFiles ==
  {Plain(MetaFile(c)) : c \in SizeZeroChildren}
  \cup {Plain(ToEnd(Ftyp(<<AVIF, U32(0), MIF1>>)) \o FileMeta(DefaultFile)),
        Plain(Ftyp(<<AVIF, U32(0), MIF1>>) \o ToEnd(Box(FREE, <<1>>))
                \o FileMeta(DefaultFile)),
        Plain(Ftyp(<<AVIF, U32(0), MIF1>>)
                \o ToEnd(FullBox(META, 1, 0, Pitm(0, 1, FALSE)))),
        Plain(Ftyp(<<AVIF, U32(0), MIF1>>) \o FileMeta(DefaultFile)
                \o ToEnd(Box(MDAT, <<1, 2, 3>>)))}

\* A box of size 2^64 - 1 inside a 'meta' box that runs to the end of the
\* file.
OverflowFiles ==
  {Plain(Ftyp(<<AVIF, U32(0), MIF1>>)
           \o Meta("zero", Pitm(0, 1, FALSE) \o U32(1) \o FREE \o U64Top(1)))}

\* Files with more records than the accumulator holds, or with ids that
\* do not fit a byte: one 'ispe', 'pixi' or 'av1C' too many; an 'ipma' entry
\* with one association too many, one 'ipma' entry too many, an item id
\* above 255; a 'dimg' with one reference too many, two 'dimg' that fill
\* the tiles, ids above 255; an 'ipco' with more than 255 properties.
Repeat(n, box) == [i \in 1..(n * Len(box)) |-> box[((i - 1) % Len(box)) + 1]]
OneItem(props) == Ipma(<<[id |-> 1, props |-> props]>>)
OverfullChildren ==
  {Iprp(Repeat(AVIFINFO_MAX_FEATURES + 1, Ispe(12, 34))
          \o Repeat(AVIFINFO_MAX_FEATURES, Pixi(3, 8)) \o Av1C(0),
        OneItem(<<1, AVIFINFO_MAX_FEATURES + 2>>)),
   Iprp(Repeat(AVIFINFO_MAX_FEATURES, Av1C(0)) \o Pixi(3, 8), OneItem(<<1>>)),
   Iprp(Pixi(3, 8), OneItem([i \in 1..(AVIFINFO_MAX_PROPS + 1) |-> 2])),
   Iprp(Pixi(3, 8),
        Ipma([e \in 1..(AVIFINFO_MAX_PROPS + 1) |-> [id |-> e, props |-> <<2>>]])),
   Iprp(Pixi(3, 8),
        Ipma(<<[id |-> AVIFINFO_MAX_VALUE + 1, props |-> <<1>>],
               [id |-> 1, props |-> <<1>>]>>)),
   Iref(<<Dimg(1, [i \in 1..(AVIFINFO_MAX_TILES + 1) |-> 2])>>),
   Iref(<<Dimg(1, [i \in 1..(AVIFINFO_MAX_TILES - 1) |-> 2]),
          Dimg(1, <<2, 3>>)>>),
   Iref(<<Dimg(AVIFINFO_MAX_VALUE + 1, <<2>>),
          Dimg(1, <<AVIFINFO_MAX_VALUE + 1, 2>>)>>),
   Box(IPRP, Box(IPCO, Repeat(AVIFINFO_MAX_VALUE + 1, Box(FREE, <<>>))))}
OverfullFiles ==
  {Plain(MetaFile(Pitm(0, 1, FALSE) \o Iinf(<<Infe(1, AV01)>>) \o c)) :
     c \in OverfullChildren}

\* Files that say a thing twice: two 'pitm' boxes; two 'tmap' items; two
\* gain map 'auxC' properties; a gain map found as an auxiliary item and
\* then as an input of the tone-mapped item; two 'ipma' boxes, the first
\* with the channels of the primary item and the second with its
\* dimensions, and an alpha plane; two 'ipma' boxes and two 'ispe'
\* properties of the primary item.
RepeatingChildren ==
  {Pitm(0, 1, FALSE) \o Pitm(1, 2, FALSE) \o Iinf(<<Infe(1, AV01)>>)
     \o Iprp(Ispe(12, 34) \o Pixi(3, 8), OneItem(<<1, 2>>)),
   Pitm(0, 1, FALSE) \o Iinf(<<Infe(3, TMAP), Infe(4, TMAP)>>),
   Pitm(0, 1, FALSE)
     \o Iprp(Ispe(12, 34) \o Pixi(3, 8) \o AuxC(GAINMAP_STR)
               \o AuxC(GAINMAP_STR), OneItem(<<1, 2>>)),
   Pitm(0, 1, FALSE) \o Iinf(<<Infe(1, AV01), Infe(3, TMAP)>>)
     \o Iprp(Ispe(12, 34) \o Pixi(3, 8) \o AuxC(GAINMAP_STR),
             Ipma(<<[id |-> 2, props |-> <<3>>]>>))
     \o Iref(<<Dimg(3, <<1, 5>>)>>),
   Pitm(0, 1, FALSE) \o Iinf(<<Infe(1, AV01)>>)
     \o Box(IPRP, Box(IPCO, Ispe(12, 34) \o Pixi(3, 8) \o AuxC(ALPHA_STR))
                    \o OneItem(<<2>>) \o OneItem(<<1>>)),
   Pitm(0, 1, FALSE) \o Iinf(<<Infe(1, AV01)>>)
     \o Box(IPRP, Box(IPCO, Ispe(12, 34) \o Ispe(56, 78) \o Pixi(3, 8))
                    \o OneItem(<<1>>) \o OneItem(<<2, 3>>))}
RepeatingFiles == {Plain(MetaFile(c)) : c \in RepeatingChildren}

\* Files with a tone-mapped item (3) whose 'iref' box holds the inputs of
\* that item and the tiles of another (2), in either order, or the tiles
\* only; the gain map (6) is the second input of the tone-mapped item.
TmapChildren(dimgs) ==
  Pitm(0, 1, FALSE) \o Iinf(<<Infe(1, AV01), Infe(3, TMAP)>>)
    \o Iprp(Ispe(12, 34) \o Pixi(3, 8), OneItem(<<1, 2>>)) \o Iref(dimgs)
TmapFiles ==
  {Plain(MetaFile(TmapChildren(dimgs))) :
     dimgs \in {<<Dimg(2, <<4, 5>>), Dimg(3, <<1, 6>>)>>,
                <<Dimg(3, <<1, 6>>), Dimg(2, <<4, 5>>)>>,
                <<Dimg(2, <<4, 5>>)>>}}

\* An 'iref' box of the given version, and a 'dimg' box whose item ids
\* take num_bytes_per_id bytes (2 in an 'iref' of version 0, 4 in one of
\* version 1: ISO/IEC 14496-12, 8.11.12.2).
Uint(n, num_bytes) == IF num_bytes = 2 THEN U16(n) ELSE U32(n)
DimgOf(num_bytes_per_id, from_item_id, to_item_ids) ==
  Box(DIMG, Uint(from_item_id, num_bytes_per_id) \o U16(Len(to_item_ids))
              \o Flatten([i \in 1..Len(to_item_ids) |->
                            Uint(to_item_ids[i], num_bytes_per_id)]))
IrefOf(version, dimgs) == FullBox(IREF, version, 0, Flatten(dimgs))
\* The file of a tone-mapped item (3) with the gain map (6) as its second
\* input, the 'iref' box being of version 1.
WideFiles ==
  {Plain(MetaFile(Pitm(0, 1, FALSE)
                    \o Iinf(<<Infe(1, AV01), Infe(3, TMAP)>>)
                    \o Iprp(Ispe(12, 34) \o Pixi(3, 8), OneItem(<<1, 2>>))
                    \o IrefOf(1, <<DimgOf(4, 3, <<1, 6>>)>>)))}

\* Files whose 'meta' box, of exact size, holds 'pitm' and then, in every
\* order, 'iinf', 'iprp' (an 'ispe' and a 'pixi' of the primary item) and,
\* or not, 'iref' (two tiles of another item).
OrderedBoxes ==
  [iinf |-> Iinf(<<Infe(1, AV01)>>),
   iprp |-> Iprp(Ispe(12, 34) \o Pixi(3, 8), OneItem(<<1, 2>>)),
   iref |-> Iref(<<Dimg(2, <<4, 5>>)>>)]
Orders ==
  {<<"iinf", "iprp">>, <<"iprp", "iinf">>,
   <<"iinf", "iprp", "iref">>, <<"iinf", "iref", "iprp">>,
   <<"iprp", "iinf", "iref">>, <<"iprp", "iref", "iinf">>,
   <<"iref", "iinf", "iprp">>, <<"iref", "iprp", "iinf">>}
OrderFile(order) ==
  Plain(MetaFile(Pitm(0, 1, FALSE)
                   \o Flatten([i \in 1..Len(order) |-> OrderedBoxes[order[i]]])))
OrderFiles == {OrderFile(order) : order \in Orders}
\* The same boxes in another order.
Reorderings(d) == IF d \in OrderFiles THEN OrderFiles \ {d} ELSE {}

\* Files whose 'iinf' box announces entry_count entries and holds the
\* given number of complete 'infe' boxes, 'iprp' following it.
MaxAnnounced == 3
MaxInfes == 2
IinfOf(version, entry_count, infes) ==
  FullBox(IINF, version, 0,
          (IF version = 0 THEN U16(entry_count) ELSE U32(entry_count))
            \o Flatten(infes))
CountFile(version, entry_count, num_infes) ==
  Plain(MetaFile(Pitm(0, 1, FALSE)
                   \o IinfOf(version, entry_count,
                             [i \in 1..num_infes |-> Infe(i, AV01)])
                   \o Iprp(Ispe(12, 34) \o Pixi(3, 8), OneItem(<<1, 2>>))))
CountFiles ==
  {CountFile(version, entry_count, num_infes) :
     version \in {0, 1}, entry_count \in 0..MaxAnnounced,
     num_infes \in 0..MaxInfes}

\* Files whose 'ipco' box holds one property less than, and exactly, the
\* largest property index, none of a recognized type; and a file whose
\* 'ispe' and 'pixi' follow an unrecognized property and an 'ispe' of an
\* unsupported version.
PropertyCountChildren ==
  {Box(IPRP, Box(IPCO, Repeat(n, Box(FREE, <<>>)))) :
     n \in {AVIFINFO_MAX_VALUE - 1, AVIFINFO_MAX_VALUE}}
  \cup {Iprp(Box(FREE, <<>>)
               \o FullBox(ISPE, UnsupportedVersion, 0, U32(56) \o U32(78))
               \o Ispe(12, 34) \o Pixi(3, 8),
             OneItem(<<3, 4>>))}
PropertyCountFiles ==
  {Plain(MetaFile(Pitm(0, 1, FALSE) \o Iinf(<<Infe(1, AV01)>>) \o c)) :
     c \in PropertyCountChildren}

\* Files whose primary item (1) has an 'ispe' only and whose tiles refer
\* to themselves, to each other, or form a chain 1 -> 2 -> ... that ends
\* at the item (4 or 5) that has the 'pixi'.
TileChildren(chan_item_id, dimgs) ==
  Pitm(0, 1, FALSE) \o Iinf(<<Infe(1, AV01)>>)
    \o Iprp(Ispe(12, 34) \o Pixi(3, 8),
            Ipma(<<[id |-> 1, props |-> <<1>>],
                   [id |-> chan_item_id, props |-> <<2>>]>>))
    \o Iref(dimgs)
Chain(last) == [i \in 1..(last - 1) |-> Dimg(i, <<i + 1>>)]
CyclicFiles ==
  {Plain(MetaFile(TileChildren(9, dimgs))) :
     dimgs \in {<<Dimg(1, <<1>>)>>,
                <<Dimg(1, <<2>>), Dimg(2, <<1>>)>>,
                <<Dimg(1, <<1, 2, 1>>), Dimg(2, <<2, 1>>)>>}}
  \cup {Plain(MetaFile(TileChildren(last, Chain(last)))) :
          last \in {MaxTileDepth + 1, MaxTileDepth + 2}}

FirstInputs ==
  AvifFiles \cup BoxRuns \cup FtypRuns \cup TopFiles \cup BrokenFiles
    \cup SizeZeroFiles \cup OverflowFiles \cup OverfullFiles
    \cup RepeatingFiles \cup TmapFiles \cup WideFiles \cup OrderFiles
    \cup CountFiles \cup PropertyCountFiles \cup CyclicFiles

Bytes(d) == d.head
IsPlain(d) == d.reps = 0

\* The proper prefixes of a buffer.
Prefixes(d) ==
  {Plain(SubSeq(Bytes(d), 1, k)) : k \in 0..(Len(Bytes(d)) - 1)}

\* The buffer followed by further bytes.
Tails == {<<0>>, Box(FREE, <<7>>), <<0, 0, 0, 0, 255, 255>>,
          Meta("exact", Pitm(0, 2, FALSE))}
Extensions(d) == {Plain(Bytes(d) \o t) : t \in Tails}

\* The places (1-based) of the version bytes of the recognized full boxes
\* of a buffer: the byte after a recognized type, or after the 64-bit size
\* that follows it.
VersionPlaces(bytes) ==
  {IF i > 4 /\ SubSeq(bytes, i - 4, i - 1) = U32(1) THEN i + 12 ELSE i + 4 :
     i \in {j \in 1..(Len(bytes) - 12) : SubSeq(bytes, j, j + 3) \in FullBoxTypes}}
VersionMutations(d) ==
  {Plain([Bytes(d) EXCEPT ![k] = UnsupportedVersion]) : k \in VersionPlaces(Bytes(d))}

\* The buffer behind a complete top-level 'ftyp' box.
FtypBoxes(d) ==
  IF IsPlain(d) THEN {Box(FTYP, <<>>), Ftyp(<<MIF1, U32(0), AVIF>>)}
  ELSE {Box(FTYP, <<>>)}
FtypPrefixed(d) == {Buffer(f \o d.head, d.unit, d.reps) : f \in FtypBoxes(d)}

\* What a second call is made on, given the first call's buffer and result.
FollowUps(d, res) ==
  (IF IsPlain(d) /\ res.status = "Ok"
   THEN Prefixes(d) \cup Extensions(d) \cup VersionMutations(d) ELSE {})
  \cup FtypPrefixed(d) \cup Reorderings(d)

FirstCall == api = "none"
SecondCall == api # "none" /\ prev.api = "none" /\ Done

(***************************************************************************)
(* The public entry points.                                                *)
(***************************************************************************)
get_features ==
  \/ /\ FirstCall
     /\ \E buf \in FirstInputs : Enter("get_features", "parse_file", buf)
  \/ /\ SecondCall /\ api = "get_features"
     /\ \E buf \in FollowUps(data, result) : Enter("get_features", "parse_file", buf)

identify ==
  \/ /\ FirstCall
     /\ \E buf \in FtypFiles \cup OddFtypFiles \cup BoxRuns \cup AvifFiles
                  \cup SizeZeroFiles :
          Enter("identify", "parse_ftyp", buf)
  \/ /\ SecondCall /\ api = "identify" /\ IsPlain(data)
     /\ Len(Bytes(data)) <= 4 * MaxBrandIndex
     /\ \E buf \in Prefixes(data) : Enter("identify", "parse_ftyp", buf)

Next ==
  \/ get_features
  \/ identify
  \/ parse_file
  \/ parse_meta
  \/ parse_iprp
  \/ parse_ipco
  \/ parse_iref
  \/ parse_iinf
  \/ parse_ftyp
  \/ callee_returns
  \/ api_returns

Spec == Init /\ [][Next]_vars

\* A call runs on the thread of its caller, which does not stop in the
\* middle of it: a call in progress keeps taking steps.  Every state with a
\* call in progress has a step of Next (the guards of the actions cover
\* every frame and every returned value), and every step of Next is a tick.
CallStep == stack # <<>> /\ tick' = 1 - tick
FairSpec == Init /\ [][Next]_vars /\ WF_tick(CallStep)

(***************************************************************************)
(* Properties.                                                             *)
(***************************************************************************)
Returned(name) == Done /\ api = name
Succeeded == result.status = "Ok"

\* The call that has returned was made on a proper prefix, or on an
\* extension, of the buffer of a get_features call that succeeded.
AfterSuccess ==
  /\ Returned("get_features")
  /\ prev.api = "get_features"
  /\ prev.result.status = "Ok"
  /\ IsPlain(data) /\ IsPlain(prev.data)
IsProperPrefix(p, q) == Len(p) < Len(q) /\ p = SubSeq(q, 1, Len(p))
PrefixCall == AfterSuccess /\ IsProperPrefix(Bytes(data), Bytes(prev.data))
ExtensionCall == AfterSuccess /\ IsProperPrefix(Bytes(prev.data), Bytes(data))

----------------------------------------------------------------------------
\* The 'ftyp' box at offset 0 of d, read from the bytes of d.
WordAt(d, at) == [k \in 1..4 |-> DataAt(d, at + k - 1)]
FtypSizeField(d) == from_be_bytes(WordAt(d, 0))
FtypHeaderSize(d) == IF FtypSizeField(d) = 1 THEN 16 ELSE 8
FtypBoxSize(d) ==
  IF FtypSizeField(d) = 1
  THEN from_be_bytes64([k \in 1..8 |-> DataAt(d, 7 + k)])
  ELSE FtypSizeField(d)
\* A 'ftyp' box of known size that holds at least the major brand and the
\* minor version.
WellFormedFtyp(d) ==
  /\ DataLen(d) >= 8
  /\ WordAt(d, 4) = FTYP
  /\ FtypSizeField(d) # 0
  /\ FtypSizeField(d) = 1 => DataLen(d) >= 16
  /\ FtypBoxSize(d) >= FtypHeaderSize(d) + 8
FtypWordCount(d) == (FtypBoxSize(d) - FtypHeaderSize(d)) \div 4
\* Word i of the box (0: the major brand, 1: the minor version) is in d and
\* is one of the two brands.
BrandAt(d, i) ==
  /\ i # 1
  /\ FtypHeaderSize(d) + 4 * i + 4 <= DataLen(d)
  /\ WordAt(d, FtypHeaderSize(d) + 4 * i) \in {AVIF, AVIS}
HasBrandWithin(d, last) ==
  /\ WellFormedFtyp(d)
  /\ \E i \in 0..(FtypWordCount(d) - 1) : i <= last /\ BrandAt(d, i)

\* C1 as stated: identify returns Ok if and only if a well-formed 'ftyp'
\* box starts at offset 0 and its brand list contains 'avif' or 'avis', for
\* every length of the list and every position of the brand.
C1_AnyPosition ==
  Returned("identify") =>
    (Succeeded <=> HasBrandWithin(data, FtypWordCount(data)))

\* C1: identify returns Ok if and only if a well-formed 'ftyp' box starts at
\* offset 0 and one of its words 0, 2, 3, ..., 33 (the major brand and the
\* first 32 compatible brands) is 'avif' or 'avis'; a list whose first
\* matching brand comes later is not identified.
C1_BrandWithinLimit ==
  Returned("identify") =>
    (Succeeded <=> HasBrandWithin(data, MaxBrandIndex + 1))

\* identify has found the brand in the last word it looks at.
C1_Witness ==
  /\ Returned("identify") /\ Succeeded
  /\ BrandAt(data, MaxBrandIndex + 1)
  /\ ~HasBrandWithin(data, MaxBrandIndex)
  /\ FtypWordCount(data) > MaxBrandIndex + 2

----------------------------------------------------------------------------
\* C2: truncation locality.  If get_features(data) returned Ok(F), then
\* get_features on a proper prefix of data returns Ok(F) or NotEnoughData.
C2_TruncationLocality ==
  PrefixCall =>
    \/ result.status = "NotEnoughData"
    \/ Succeeded /\ result.features = prev.result.features

\* A prefix that still holds everything the parser reads, and one that
\* does not.
C2_Witness ==
  PrefixCall /\ Succeeded /\ result.features = prev.result.features
C2_WitnessCut == PrefixCall /\ result.status = "NotEnoughData"

----------------------------------------------------------------------------
\* C3: prefix monotonicity.  If get_features(data) returned Ok(F), then
\* get_features on data followed by further bytes returns Ok(F), also when
\* 'meta' is declared with size 0 or with a size larger than data.
C3_PrefixMonotonicity ==
  ExtensionCall => Succeeded /\ result.features = prev.result.features

\* Bytes were added behind a 'meta' box that runs to the end of the file.
C3_Witness ==
  /\ ExtensionCall /\ Succeeded
  /\ prev.data = Plain(AvifFile([DefaultFile EXCEPT !.meta = "zero",
                                                    !.tail = FALSE]))
\* Bytes were added behind a 'meta' box declared larger than the file.
C3_WitnessOver ==
  /\ ExtensionCall /\ Succeeded
  /\ prev.data = Plain(AvifFile([DefaultFile EXCEPT !.meta = "over",
                                                    !.tail = FALSE]))

----------------------------------------------------------------------------
\* The call in progress (or returned) is made on the buffer of a
\* get_features call that succeeded, with the version byte of one
\* recognized full box set to an unsupported value.
VersionMutated ==
  /\ api = "get_features"
  /\ prev.api = "get_features"
  /\ prev.result.status = "Ok"
  /\ IsPlain(data) /\ IsPlain(prev.data)
  /\ Len(Bytes(data)) = Len(Bytes(prev.data))
  /\ data # prev.data
  /\ data \in VersionMutations(prev.data)

\* C4: setting the version of a recognized full box to an unsupported
\* value never makes get_features return InvalidFile.
C4_NeverInvalid ==
  Done /\ VersionMutated => result.status # "InvalidFile"

----------------------------------------------------------------------------
HasPixi(d) ==
  \E i \in 1..(Len(Bytes(d)) - 3) : SubSeq(Bytes(d), i, i + 3) = PIXI

\* C5 as stated: whenever get_features returns Ok(F), F.bit_depth is 8, 10
\* or 12, whether the channel record came from 'pixi' or from 'av1C'.
C5_DepthOfAnySource ==
  Returned("get_features") /\ Succeeded =>
    result.features.bit_depth \in {8, 10, 12}

\* C5: whenever get_features returns Ok(F), F.bit_depth is in 1..255, and it
\* is 8, 10 or 12 when the file has no 'pixi' box, that is when the channel
\* record came from 'av1C'.
C5_DepthOfAv1C ==
  Returned("get_features") /\ Succeeded =>
    /\ result.features.bit_depth \in 1..AVIFINFO_MAX_VALUE
    /\ ~HasPixi(data) => result.features.bit_depth \in {8, 10, 12}

\* A twelve-bit 'av1C' record gave the depth.
C5_Witness ==
  /\ Returned("get_features") /\ Succeeded
  /\ ~HasPixi(data)
  /\ result.features.bit_depth = 12

----------------------------------------------------------------------------
\* C6: identity of offsets.  Whenever get_features(data) returns Ok(F), the
\* F.primary_item_id_bytes bytes of data at F.primary_item_id_location lie
\* inside data and, read big-endian, are the primary item id of the parse.
C6_IdentityOfOffsets ==
  Returned("get_features") /\ Succeeded =>
    /\ result.features.primary_item_id_bytes \in {2, 4}
    /\ result.features.primary_item_id_location >= 0
    /\ result.features.primary_item_id_location
         + result.features.primary_item_id_bytes <= DataLen(data)
    /\ from_be_bytes([k \in 1..result.features.primary_item_id_bytes |->
                        DataAt(data, result.features.primary_item_id_location
                                       + k - 1)])
         = feat.primary_item_id

\* 64-bit sizes of 'meta' and 'pitm', a 4-byte id, boxes before 'meta'.
C6_Witness ==
  /\ Returned("get_features") /\ Succeeded
  /\ data = Plain(AvifFile([DefaultFile EXCEPT !.meta = "size64",
                                               !.pitm_version = 1,
                                               !.pitm64 = TRUE,
                                               !.pre = MaxPre]))
  /\ result.features.primary_item_id_bytes = 4

----------------------------------------------------------------------------
\* C7 as stated: one call to get_features reads at most 4,096 box headers
\* in total.
C7_AllHeaders == headers.all <= AVIFINFO_MAX_NUM_BOXES

\* C7: one call reads at most 4,095 box headers that are not top-level
\* 'ftyp' headers, and the shared count never exceeds 4,096; top-level
\* 'ftyp' headers are not counted and are bounded by the input alone.
C7_CountedHeaders ==
  /\ headers.counted <= AVIFINFO_MAX_NUM_BOXES - 1
  /\ headers.counted <= num_parsed_boxes
  /\ num_parsed_boxes <= AVIFINFO_MAX_NUM_BOXES

\* A call has read as many counted headers as it can.
C7_Witness ==
  /\ Returned("get_features")
  /\ headers.counted = AVIFINFO_MAX_NUM_BOXES - 1
  /\ num_parsed_boxes = AVIFINFO_MAX_NUM_BOXES

----------------------------------------------------------------------------
\* C8: get_features and identify terminate: a call in progress eventually
\* returns a result.
C8_Termination == (stack # <<>>) ~> Done

\* A call that went through the longest run of boxes has returned.
C8_Witness ==
  /\ Done
  /\ data.reps = MaxBoxRun
  /\ headers.all >= AVIFINFO_MAX_NUM_BOXES - 1

----------------------------------------------------------------------------
\* The call that has returned was made on f followed by the buffer of the
\* preceding call, f a complete top-level 'ftyp' box.
FtypPrefixCall(f) ==
  /\ Returned("get_features")
  /\ prev.api = "get_features"
  /\ data = Buffer(f \o prev.data.head, prev.data.unit, prev.data.reps)

\* C9 as stated: for every complete top-level 'ftyp' box F of known size and
\* every R, get_features(F followed by R) returns the error kind of
\* get_features(R), and on success the same Features with
\* primary_item_id_location larger by the length of F.
C9_FtypIgnored ==
  \A f \in FtypBoxes(prev.data) :
    FtypPrefixCall(f) =>
      /\ result.status = prev.result.status
      /\ Succeeded =>
           result.features =
             [prev.result.features EXCEPT
                !.primary_item_id_location = @ + Len(f)]

----------------------------------------------------------------------------
\* A valid 'ftyp' followed by copies of one complete empty 8-byte box.
IsBoxRun(d) ==
  /\ d.head = RunHead
  /\ Len(d.unit) = 8
  /\ SubSeq(d.unit, 1, 4) = U32(8)
RunType(d) == SubSeq(d.unit, 5, 8)
RunOutcome(d) ==
  /\ api = "get_features" /\ d.reps >= AVIFINFO_MAX_NUM_BOXES
       => result.status = "TooComplex"
  /\ api = "get_features" /\ d.reps < AVIFINFO_MAX_NUM_BOXES
       => result.status = "NotEnoughData"
  /\ api = "identify" => Succeeded

\* C10 as stated: on a valid 'ftyp' followed by N complete empty 8-byte
\* boxes of a type other than 'meta' and 'ftyp', get_features returns
\* TooComplex if N >= 4096 and NotEnoughData if N < 4096, and identify
\* returns Ok.
C10_AnyType ==
  Done /\ IsBoxRun(data) /\ RunType(data) \notin {META, FTYP} =>
    RunOutcome(data)

\* C10: the same, for the types that carry no version and flags: an empty
\* 8-byte box of a full-box type (meta, pitm, ipma, ispe, pixi, iref, auxC,
\* iinf, infe) is smaller than its header and makes the file invalid.
C10_PlainBoxes ==
  Done /\ IsBoxRun(data) /\ RunType(data) \notin FullBoxTypes \cup {FTYP} =>
    RunOutcome(data)

\* The longest run that stays under the limit.
C10_Witness ==
  /\ Returned("get_features")
  /\ IsBoxRun(data) /\ RunType(data) \notin FullBoxTypes \cup {FTYP}
  /\ data.reps = AVIFINFO_MAX_NUM_BOXES - 1
  /\ result.status = "NotEnoughData"

-----------------------------------------------------------------------------
\* C11: when parse_meta has reached the end of a 'meta' box of known size
\* (the resolver never succeeded, no other error), get_features returns
\* TooComplex if data_was_skipped is set and InvalidFile otherwise.
C11_EndOfMeta ==
  (Done /\ api = "get_features" /\ last_box.meta_ended) =>
    result.status =
      IF feat.data_was_skipped THEN "TooComplex" ELSE "InvalidFile"

\* The end of 'meta' after a record was skipped, and the end of a 'meta'
\* whose 'ipco' has no 'ispe'.
C11_Witness ==
  /\ Done /\ api = "get_features" /\ last_box.meta_ended
  /\ feat.data_was_skipped /\ result.status = "TooComplex"
C11_WitnessInvalid ==
  /\ Done /\ api = "get_features" /\ last_box.meta_ended
  /\ data = Plain(NoIspeFile(<<Infe(1, AV01)>>))
  /\ feat.dim_props = <<>> /\ ~feat.data_was_skipped
  /\ result.status = "InvalidFile"

-----------------------------------------------------------------------------
\* The cursor of the stream has left the bytes of the stream, and these
\* bytes, if any, end where the buffer ends: more bytes were asked for than
\* the buffer holds.
ReadPastEnd(s) ==
  /\ ult(s.dlen, s.offset)
  /\ s.dlen = 0 \/ s.base + s.dlen = DataLen(data)

\* C12: get_features and identify return NotEnoughData only after a read
\* that asked for bytes beyond the end of the buffer (Truncated), a status
\* that is handed up unchanged; NotFound is consumed by the caller of the
\* function that returned it, which is never parse_file, and does not
\* reach the public result.
C12_OnlyTruncated ==
  [][/\ (ret = "none" /\ ret' = "Truncated") => ReadPastEnd(Top'.stream)
     /\ (ret = "Truncated" /\ Len(stack) >= 2) => ret' = "Truncated"
     /\ (result.status = "none" /\ result'.status = "NotEnoughData") =>
          ret = "Truncated"
     /\ ret = "NotFound" =>
          /\ Len(stack) >= 2
          /\ stack[Len(stack) - 1].fn # "parse_file"
          /\ ret' = "none"]_vars

\* A read beyond the end of the buffer has reached the entry point, and a
\* NotFound is about to be consumed by parse_meta.
C12_Witness ==
  /\ Len(stack) = 1 /\ ret = "Truncated" /\ api = "get_features"
  /\ ult(DataLen(data), Top.stream.offset)
C12_WitnessNotFound ==
  /\ ret = "NotFound" /\ Top.fn = "parse_iprp"
  /\ stack[Len(stack) - 1].fn = "parse_meta"

-----------------------------------------------------------------------------
\* The function on top of the stack is about to call parse_box.
ReadsBox ==
  /\ stack # <<>> /\ ret = "none"
  /\ \/ Top.fn = "parse_file"
     \/ Top.fn = "parse_ftyp" /\ ~Top.started
     \/ Top.fn \in {"parse_meta", "parse_iprp", "parse_ipco"}
          /\ has_more_bytes(Top.stream)
     \/ Top.fn = "parse_iref" /\ Top.started /\ has_more_bytes(Top.stream)
     \/ Top.fn = "parse_iinf" /\ Top.started /\ Top.entry < Top.entry_count
\* The bytes of the buffer at the cursor of s, n of them being there.
Ahead(s, n) == s.offset >= 0 /\ s.offset + n <= s.dlen
\* The byte at index at of d, 0 for a byte that is not there.
ByteAt(d, at) == IF at >= 0 /\ at < DataLen(d) THEN DataAt(d, at) ELSE 0
WordAhead(s, at) ==
  [k \in 1..4 |-> ByteAt(data, s.base + s.offset + at + k - 1)]
\* The box at the cursor of s has the 32-bit size 0, and its header is in
\* the buffer: size and type, version and flags for a full box at the top
\* level.
SizeZeroAhead(s, nesting_level) ==
  /\ Ahead(s, 8)
  /\ WordAhead(s, 0) = U32(0)
  /\ (nesting_level = 0 /\ WordAhead(s, 4) \in FullBoxTypes) => Ahead(s, 12)
\* A top-level 'meta' box of version 0 read by get_features.
TopLevelMetaAhead(s, nesting_level) ==
  /\ nesting_level = 0 /\ api = "get_features"
  /\ WordAhead(s, 4) = META /\ WordAhead(s, 8)[1] = 0
\* The top-level box at the cursor is the one that reaches the box limit.
LimitAhead(s, nesting_level) ==
  /\ nesting_level = 0 /\ WordAhead(s, 4) # FTYP
  /\ num_parsed_boxes + 1 >= AVIFINFO_MAX_NUM_BOXES

\* The top-level box at offset at of d, or a top-level box behind it, has
\* the 32-bit size 0, is not a 'meta' box, and its header is in d.  The
\* boxes in front of it have 32-bit sizes.
RECURSIVE SizeZeroTopBox(_, _)
SizeZeroTopBox(d, at) ==
  IF at + 8 > DataLen(d) THEN FALSE
  ELSE IF WordAt(d, at) = U32(0)
  THEN /\ WordAt(d, at + 4) # META
       /\ WordAt(d, at + 4) \in FullBoxTypes => at + 12 <= DataLen(d)
  ELSE IF WordAt(d, at)[1] # 0 \/ from_be_bytes(WordAt(d, at)) < 8 THEN FALSE
  ELSE SizeZeroTopBox(d, at + from_be_bytes(WordAt(d, at)))

\* C13 as stated: a top-level box of size 0 that is not 'meta' makes
\* get_features return InvalidFile, wherever the box is in the file.
C13_AnySizeZero ==
  (Returned("get_features") /\ IsPlain(data) /\ SizeZeroTopBox(data, 0)) =>
    result.status = "InvalidFile"

\* C13: when parse_box reads a header whose 32-bit size field is 0 (the
\* header is in the buffer, the box limit is not reached), the function
\* that called it returns Invalid, at every nesting level and for every
\* type, unless the box is a top-level 'meta' box of version 0 read by
\* get_features, which is parsed; Invalid is handed up unchanged and
\* becomes InvalidFile.  A box that the parser does not reach (behind the
\* 'meta' box that gave the features) is not read.
C13_SizeZeroWhenRead ==
  [][/\ (/\ ReadsBox
         /\ SizeZeroAhead(Top.stream, Top.nesting_level)
         /\ ~LimitAhead(Top.stream, Top.nesting_level)) =>
          IF TopLevelMetaAhead(Top.stream, Top.nesting_level)
          THEN ret' = "none" /\ Top'.fn = "parse_meta"
          ELSE ret' = "Invalid"
     /\ ret = "Invalid" =>
          \/ stack' # <<>> /\ ret' = "Invalid"
          \/ stack' = <<>> /\ result'.status = "InvalidFile"]_vars

\* The 'ispe' property of size 0 has made parse_ipco return Invalid.
C13_Witness ==
  /\ ret = "Invalid" /\ Top.fn = "parse_ipco"
  /\ last_box.raw = ISPE /\ last_box.err = "Invalid"
  /\ WordAt(data, Top.stream.base) = U32(0)
\* A 'ftyp' box of size 0 has made identify return InvalidFile.
C13_WitnessFtyp ==
  /\ Returned("identify") /\ result.status = "InvalidFile"
  /\ WordAt(data, 0) = U32(0) /\ WordAt(data, 4) = FTYP
  /\ DataLen(data) > 16

-----------------------------------------------------------------------------
\* Box sizes close to 2^64.
BigSizes == {from_be_bytes64(U64Top(k)) : k \in {1, 5, 21}}
\* The box at the cursor of s has a 64-bit size, its header is in the
\* buffer, s has no declared size to hold the box against, and the content
\* size added to the cursor behind the header is more than a usize holds.
HeaderAhead(s) == IF WordAhead(s, 4) \in FullBoxTypes THEN 20 ELSE 16
SizeAhead(s) == from_be_bytes64(WordAhead(s, 8) \o WordAhead(s, 12))
OverflowAhead(s) ==
  /\ ~s.size.some
  /\ Ahead(s, 16) /\ Ahead(s, HeaderAhead(s))
  /\ WordAhead(s, 0) = U32(1)
  /\ checked_sub(SizeAhead(s), HeaderAhead(s)).some
  /\ ~checked_add(s.offset + HeaderAhead(s),
                  SizeAhead(s) - HeaderAhead(s)).some
  /\ num_parsed_boxes + 1 < AVIFINFO_MAX_NUM_BOXES

\* C14: the cursor never wraps around.  skip and substream on a sum that
\* overflows fail with Aborted and leave the cursor where it was; a box
\* whose declared size overflows the cursor makes the function that reads
\* it return Aborted with its cursor behind the header of the box;
\* Aborted is handed up unchanged and get_features returns TooComplex.
C14_NoWrap ==
  [][/\ \A i \in 1..Len(stack) : \A n \in BigSizes :
          ~checked_add(stack[i].stream.offset, n).some =>
            /\ skip(stack[i].stream, n) =
                 [err |-> "Aborted", s |-> stack[i].stream]
            /\ substream(stack[i].stream, Some(n)).err = "Aborted"
            /\ substream(stack[i].stream, Some(n)).s = stack[i].stream
     /\ (ReadsBox /\ Top.fn # "parse_ftyp" /\ OverflowAhead(Top.stream)) =>
          /\ ret' = "Aborted"
          /\ Top'.stream.offset = Top.stream.offset + HeaderAhead(Top.stream)
     /\ ret = "Aborted" =>
          \/ stack' # <<>> /\ ret' = "Aborted"
          \/ stack' = <<>> /\ result'.status = "TooComplex"]_vars

\* parse_file has read the header of a 'meta' box of size 2^64 - 1 behind
\* a 'ftyp' box and returns Aborted.
C14_Witness ==
  /\ ret = "Aborted" /\ Top.fn = "parse_file"
  /\ last_box.raw = META /\ last_box.err = "Ok"
  /\ Top.stream.offset > 20
  /\ ~checked_add(Top.stream.offset, from_be_bytes64(U64Top(21))).some

-----------------------------------------------------------------------------
\* What the file holds at the cursor, read from the bytes of the buffer.
\* The boxes have 32-bit sizes.
ByteAhead(s, at) == ByteAt(data, s.base + s.offset + at)
U16Ahead(s, at) == ByteAhead(s, at) * 256 + ByteAhead(s, at + 1)
\* The function fn is about to read a box of type box_type (of the given
\* version and flags 0, if it is a full box).
BoxAhead(fn, box_type, version) ==
  /\ ReadsBox /\ Top.fn = fn
  /\ Ahead(Top.stream, 12)
  /\ WordAhead(Top.stream, 0)[1] = 0 /\ WordAhead(Top.stream, 0) # U32(1)
  /\ WordAhead(Top.stream, 4) = box_type
  /\ box_type \in FullBoxTypes =>
       WordAhead(Top.stream, 8) = <<version, 0, 0, 0>>
\* The body of the box was read without an error.
BodyRead == ret' \in {"none", "Ok", "NotFound"}
\* The associations of an 'ipma' box of version 0 and flags 0 whose first
\* entry is at `at': the sum of the association counts of its entries.
RECURSIVE IpmaAssociations(_, _, _)
IpmaAssociations(s, at, entries) ==
  IF entries = 0 THEN 0
  ELSE ByteAhead(s, at + 2)
         + IpmaAssociations(s, at + 3 + ByteAhead(s, at + 2), entries - 1)
Added(field) == Len(feat'[field]) - Len(feat[field])

\* C15: num_tiles <= 16, num_props <= 32, num_dim_props <= 8 and
\* num_chan_props <= 8 in every state of a parse; when a step leaves a
\* record of the box it reads out of the accumulator ('ispe', 'pixi',
\* 'av1C', an association of 'ipma', a reference of 'dimg', the id of a
\* 'tmap' item, the properties behind the 255th of 'ipco'),
\* data_was_skipped is set after the step; and data_was_skipped, once set,
\* stays set until the call returns.
C15_BoundedRecords ==
  [][/\ Len(feat.tiles) <= AVIFINFO_MAX_TILES
     /\ Len(feat.props) <= AVIFINFO_MAX_PROPS
     /\ Len(feat.dim_props) <= AVIFINFO_MAX_FEATURES
     /\ Len(feat.chan_props) <= AVIFINFO_MAX_FEATURES
     /\ (BoxAhead("parse_ipco", ISPE, 0) /\ BodyRead /\ Added("dim_props") < 1)
          => feat'.data_was_skipped
     /\ (/\ BoxAhead("parse_ipco", PIXI, 0) \/ BoxAhead("parse_ipco", AV1C, 0)
         /\ BodyRead /\ Added("chan_props") < 1)
          => feat'.data_was_skipped
     /\ (/\ ReadsBox /\ Top.fn = "parse_ipco"
         /\ Top.box_index = AVIFINFO_MAX_VALUE /\ BodyRead)
          => feat'.data_was_skipped
     /\ (/\ BoxAhead("parse_iprp", IPMA, 0) /\ BodyRead
         /\ Added("props") <
              IpmaAssociations(Top.stream, 16,
                               from_be_bytes(WordAhead(Top.stream, 12))))
          => feat'.data_was_skipped
     /\ (/\ BoxAhead("parse_iref", DIMG, 0) /\ BodyRead
         /\ Added("tiles") < U16Ahead(Top.stream, 10))
          => feat'.data_was_skipped
     /\ (/\ BoxAhead("parse_iinf", INFE, 2)
         /\ WordAhead(Top.stream, 16) = TMAP
         /\ BodyRead
         /\ feat'.tone_mapped_item_id # U16Ahead(Top.stream, 12))
          => feat'.data_was_skipped
     /\ (stack # <<>> /\ feat.data_was_skipped) => feat'.data_was_skipped]_vars

\* The ninth 'ispe' of an 'ipco' was left out, and data_was_skipped is set.
C15_Witness ==
  /\ Running("parse_ipco") /\ Top.box_index = AVIFINFO_MAX_FEATURES + 2
  /\ last_box.raw = ISPE
  /\ Len(feat.dim_props) = AVIFINFO_MAX_FEATURES
  /\ feat.data_was_skipped

-----------------------------------------------------------------------------
\* A step of a call in progress leaves a defined value (not 0) as it is.
Kept(old, new) == old # AVIFINFO_UNDEFINED => new = old
IsPrefixSeq(p, q) == Len(p) <= Len(q) /\ p = SubSeq(q, 1, Len(p))

\* C16 as stated: once primary_item_id, primary_item_id_location,
\* primary_item_id_bytes, tone_mapped_item_id, gainmap_property_index,
\* gainmap_item_id, width, height, bit_depth or num_channels is set to a
\* defined value, no later box changes it, and has_primary_item is set
\* exactly once ('pitm' is not read when it is set).
C16_NothingOverwritten ==
  [][stack # <<>> =>
       /\ Kept(feat.primary_item_id, feat'.primary_item_id)
       /\ Kept(feat.primary_item_features.primary_item_id_location,
               feat'.primary_item_features.primary_item_id_location)
       /\ Kept(feat.primary_item_features.primary_item_id_bytes,
               feat'.primary_item_features.primary_item_id_bytes)
       /\ Kept(feat.tone_mapped_item_id, feat'.tone_mapped_item_id)
       /\ Kept(feat.gainmap_property_index, feat'.gainmap_property_index)
       /\ Kept(feat.primary_item_features.gainmap_item_id,
               feat'.primary_item_features.gainmap_item_id)
       /\ Kept(feat.primary_item_features.width,
               feat'.primary_item_features.width)
       /\ Kept(feat.primary_item_features.height,
               feat'.primary_item_features.height)
       /\ Kept(feat.primary_item_features.bit_depth,
               feat'.primary_item_features.bit_depth)
       /\ Kept(feat.primary_item_features.num_channels,
               feat'.primary_item_features.num_channels)
       /\ ~(feat.has_primary_item /\ BodyRead
              /\ \E version \in {0, 1} :
                   BoxAhead("parse_meta", PITM, version))]_vars

\* C16: during one call, width, height and bit_depth are not changed once
\* they are defined; num_channels is changed only by the resolver call
\* that succeeds, which adds 1 for an alpha plane; the flags are not reset
\* and the records only grow.  (The ids and locations set by 'pitm',
\* 'infe', 'auxC' and the gain map search are overwritten by later boxes.)
C16_Monotone ==
  [][stack # <<>> =>
       /\ Kept(feat.primary_item_features.width,
               feat'.primary_item_features.width)
       /\ Kept(feat.primary_item_features.height,
               feat'.primary_item_features.height)
       /\ Kept(feat.primary_item_features.bit_depth,
               feat'.primary_item_features.bit_depth)
       /\ \/ Kept(feat.primary_item_features.num_channels,
                  feat'.primary_item_features.num_channels)
          \/ /\ ret' = "Ok" /\ feat'.has_alpha
             /\ feat'.primary_item_features.num_channels =
                  feat.primary_item_features.num_channels + 1
       /\ feat.has_primary_item => feat'.has_primary_item
       /\ feat.has_alpha => feat'.has_alpha
       /\ feat.iinf_parsed => feat'.iinf_parsed
       /\ feat.iref_parsed => feat'.iref_parsed
       /\ feat.primary_item_features.has_gainmap =>
            feat'.primary_item_features.has_gainmap
       /\ IsPrefixSeq(feat.tiles, feat'.tiles)
       /\ IsPrefixSeq(feat.props, feat'.props)
       /\ IsPrefixSeq(feat.dim_props, feat'.dim_props)
       /\ IsPrefixSeq(feat.chan_props, feat'.chan_props)]_vars

\* The second 'ipma' box of a file has been read: the channels found
\* after the first were kept, the dimensions are those of the first
\* 'ispe' of the primary item.
C16_Witness ==
  /\ ret = "Ok" /\ Top.fn = "parse_iprp"
  /\ Len(feat.dim_props) = 2 /\ Len(feat.props) = 3
  /\ feat.primary_item_features.width = 12
  /\ feat.primary_item_features.height = 34
\* The resolver call that succeeded added the alpha plane to channels that
\* an earlier call had found.
C16_WitnessAlpha ==
  /\ ret = "Ok" /\ Top.fn = "parse_iprp"
  /\ feat.has_alpha /\ Len(feat.props) = 2
  /\ feat.props[1].property_index = 2
  /\ feat.primary_item_features.num_channels = 4

-----------------------------------------------------------------------------
\* parse_iref has returned Ok without a gain map although the box it was
\* about to read is the 'dimg' of the tone-mapped item, with two inputs.
GaveUpEarly ==
  /\ stack # <<>> /\ Top.fn = "parse_iref" /\ ret = "Ok"
  /\ ~feat.primary_item_features.has_gainmap
  /\ feat.tone_mapped_item_id # AVIFINFO_UNDEFINED
  /\ has_more_bytes(Top.stream) /\ Ahead(Top.stream, 12)
  /\ WordAhead(Top.stream, 4) = DIMG
  /\ U16Ahead(Top.stream, 8) = feat.tone_mapped_item_id
  /\ U16Ahead(Top.stream, 10) >= 2

\* C17: iref_parsed (iinf_parsed) is true only once the 'iref' ('iinf')
\* box has been traversed: it is false while parse_iref has children left
\* to read (parse_iinf has entries left), so that the resolver does not
\* give up on the gain map of a 'tmap' item before the last 'dimg'.
C17_ParsedAfterTraversal ==
  /\ (ReadsBox /\ Top.fn = "parse_iref") => ~feat.iref_parsed
  /\ (ReadsBox /\ Top.fn = "parse_iinf") => ~feat.iinf_parsed
  /\ ~GaveUpEarly

-----------------------------------------------------------------------------
\* The step in which the resolver, called after an 'ipma' or a 'dimg' box,
\* reports success.
ResolverSucceeds ==
  /\ stack # <<>> /\ ret = "none" /\ ret' = "Ok"
  /\ Top.fn \in {"parse_iprp", "parse_iref"}

\* C18: when the resolver succeeds without a gain map, 'iinf' had been
\* entered before that call and either no 'tmap' item was recorded or
\* 'iref' had been entered; and the features that get_features returns
\* with has_gainmap = FALSE have gainmap_item_id = 0.
C18_NoEarlySuccess ==
  [][/\ (ResolverSucceeds /\ ~feat'.primary_item_features.has_gainmap) =>
          /\ feat.iinf_parsed
          /\ \/ feat'.tone_mapped_item_id = AVIFINFO_UNDEFINED
             \/ feat.iref_parsed
     /\ (api' = "get_features" /\ result'.status = "Ok"
           /\ ~result'.features.has_gainmap) =>
          result'.features.gainmap_item_id = 0]_vars

\* get_features has returned features without a gain map for a file with a
\* 'tmap' item whose 'iref' box holds the two tiles of another item only.
C18_Witness ==
  /\ Done /\ api = "get_features" /\ result.status = "Ok"
  /\ ~result.features.has_gainmap /\ result.features.gainmap_item_id = 0
  /\ feat.iinf_parsed /\ feat.iref_parsed
  /\ feat.tone_mapped_item_id # AVIFINFO_UNDEFINED
  /\ Len(feat.tiles) = 2
\* The same for a file without a 'tmap' item and without an 'iref' box.
C18_WitnessNoTmap ==
  /\ Done /\ api = "get_features" /\ result.status = "Ok"
  /\ ~result.features.has_gainmap
  /\ feat.iinf_parsed /\ ~feat.iref_parsed
  /\ feat.tone_mapped_item_id = AVIFINFO_UNDEFINED

-----------------------------------------------------------------------------
\* The version of the 'iref' box that parse_iref is reading: the first of
\* the four bytes before its content.
IrefVersion == ByteAt(data, Top.stream.base - 4)
IdBytes == IF IrefVersion = 0 THEN 2 ELSE 4
UintAhead(s, at, n) == from_be_bytes([k \in 1..n |-> ByteAhead(s, at + k - 1)])
\* The references of the 'dimg' box at the cursor, as the file stores them
\* in an 'iref' box of that version.
DimgFrom == UintAhead(Top.stream, 8, IdBytes)
DimgCount == U16Ahead(Top.stream, 8 + IdBytes)
DimgTo(i) == UintAhead(Top.stream, 10 + IdBytes * (i + 1), IdBytes)
FileTiles ==
  [i \in 1..DimgCount |->
     [tile_item_id |-> DimgTo(i - 1), parent_item_id |-> DimgFrom,
      dimg_idx |-> i - 1]]
\* parse_iref is about to read a whole 'dimg' box whose references all fit
\* the accumulator.
DimgAhead ==
  /\ BoxAhead("parse_iref", DIMG, 0)
  /\ from_be_bytes(WordAhead(Top.stream, 0)) = 10 + IdBytes * (DimgCount + 1)
  /\ Ahead(Top.stream, 10 + IdBytes * (DimgCount + 1))
  /\ DimgFrom <= AVIFINFO_MAX_VALUE
  /\ \A i \in 0..(DimgCount - 1) : DimgTo(i) <= AVIFINFO_MAX_VALUE
  /\ Len(feat.tiles) + DimgCount <= AVIFINFO_MAX_TILES

\* C19: the ids of a 'dimg' box are read as 2 bytes in an 'iref' box of
\* version 0 and as 4 bytes in one of version 1: the tiles recorded for the
\* box are the references stored in the file, for both versions.
C19_TilesOfBothVersions ==
  [][DimgAhead => feat'.tiles = feat.tiles \o FileTiles]_vars

-----------------------------------------------------------------------------
\* C20: the resolver is consulted after each of 'iprp', 'iref' and 'iinf':
\* for a 'meta' box of known size with 'pitm', 'iinf', an 'iprp' that gives
\* the primary item an 'ispe' and a 'pixi', and maybe an 'iref',
\* get_features succeeds for every order of these children, 'iinf' last
\* included, and returns the same features for two orders.
C20_OrderIndependent ==
  (Done /\ api = "get_features" /\ data \in OrderFiles) =>
    /\ result.status = "Ok"
    /\ (prev.api = "get_features" /\ prev.data \in OrderFiles) =>
         result = prev.result

-----------------------------------------------------------------------------
\* C21: an 'iinf' box that announces more entries than it holds complete
\* children (none included) causes no error by itself: parse_iinf stops at
\* the end of the box and returns NotFound.
C21_CountBiggerThanBox ==
  (stack # <<>> /\ Top.fn = "parse_iinf" /\ ret # "none"
     /\ data \in CountFiles) => ret = "NotFound"

-----------------------------------------------------------------------------
\* The size of the box at the cursor of s: the 32-bit size, or the 64-bit
\* size that follows the type when it is 1.
SizeOfBoxAhead(s) ==
  IF WordAhead(s, 0) = U32(1)
  THEN from_be_bytes(WordAhead(s, 8) \o WordAhead(s, 12))
  ELSE from_be_bytes(WordAhead(s, 0))
\* parse_ipco is about to read a property, and one of a type it does not
\* recognize.
PropertyAhead == ReadsBox /\ Top.fn = "parse_ipco" /\ Ahead(Top.stream, 8)
OtherPropertyAhead ==
  PropertyAhead /\ WordAhead(Top.stream, 4) \notin {ISPE, PIXI, AV1C, AUXC}

\* C22: the properties of 'ipco' are numbered by their position, from 1,
\* whatever their type (the first box has index 1, and the walk goes from
\* a box to the next box and the next index; an 'ispe' is recorded with
\* the index of its position); and the walk sets data_was_skipped on
\* account of the number of properties only when there is a 256th
\* property: it reads the 255th and the box has more bytes.
C22_LatchAt256 ==
  [][/\ (PropertyAhead /\ Top.stream.offset = 0) => Top.box_index = 1
     /\ (PropertyAhead /\ ret' = "none" /\ Len(stack') = Len(stack)) =>
          /\ Top'.box_index = Top.box_index + 1
          /\ Top'.stream.offset =
               Top.stream.offset + SizeOfBoxAhead(Top.stream)
     /\ (PropertyAhead /\ Added("dim_props") = 1) =>
          feat'.dim_props[Len(feat'.dim_props)].property_index = Top.box_index
     /\ (OtherPropertyAhead /\ ~feat.data_was_skipped
           /\ feat'.data_was_skipped) =>
          /\ Top.box_index = AVIFINFO_MAX_VALUE
          /\ has_more_bytes(Top'.stream)]_vars

-----------------------------------------------------------------------------
\* The tiles of the accumulator hold a cycle of one or two items.
CyclicTiles ==
  \E t, u \in 1..Len(feat.tiles) :
    /\ feat.tiles[t].parent_item_id = feat.tiles[u].tile_item_id
    /\ feat.tiles[u].parent_item_id = feat.tiles[t].tile_item_id

\* C23: the join of the features ends whatever the tiles hold, cycles
\* included: get_item_features is never entered with a tile_depth above 3,
\* and the resolver returns success or NotFound.
C23_BoundedJoin ==
  last_box.join.called =>
    /\ last_box.join.depth \in 0..3
    /\ last_box.join.err \in {"Ok", "NotFound"}

\* The resolver went through a cycle of tiles down to tile_depth 3 and
\* returned NotFound.
C23_Witness ==
  /\ last_box.join.called /\ CyclicTiles
  /\ last_box.join.depth = 3 /\ last_box.join.err = "NotFound"
\* The resolver found the channels in the tile at tile_depth 3.
C23_WitnessChain ==
  /\ last_box.join.called /\ ~CyclicTiles
  /\ last_box.join.depth = 3 /\ last_box.join.err = "Ok"

-----------------------------------------------------------------------------
\* The read of the four bytes of a box size, the first read of parse_box:
\* the cursor of s is within four bytes of 2^64; the read moves the cursor
\* past the declared size of s.
ReadOverflows(s) == s.offset \in -4..-1
ReadPastSize(s) ==
  ~ReadOverflows(s) /\ s.size.some /\ ult(s.size.v, s.offset + 4)

\* C24 as stated: a read fails with Truncated when the bytes are not in
\* the buffer, and with Aborted when the cursor would overflow or move
\* past the declared size of the parent box.
C24_AbortedPastSize ==
  [][ReadsBox =>
       /\ (ReadOverflows(Top.stream) \/ ReadPastSize(Top.stream)) =>
            ret' = "Aborted"
       /\ (~ReadOverflows(Top.stream) /\ ~ReadPastSize(Top.stream)
             /\ ~Ahead(Top.stream, 4)) => ret' = "Truncated"]_vars

\* C24: a read of n > 0 bytes fails with Aborted when the cursor would
\* overflow, with Invalid when the cursor would move past the declared
\* size of the parent box (whether the bytes are in the buffer or not),
\* and with Truncated when the bytes are not in the buffer otherwise.
C24_ReadErrors ==
  [][ReadsBox =>
       /\ ReadOverflows(Top.stream) => ret' = "Aborted"
       /\ ReadPastSize(Top.stream) => ret' = "Invalid"
       /\ (~ReadOverflows(Top.stream) /\ ~ReadPastSize(Top.stream)
             /\ ~Ahead(Top.stream, 4)) => ret' = "Truncated"]_vars

\* parse_iinf has read the header of an entry past the end of its box: the
\* read failed with Invalid.
C24_Witness ==
  /\ stack # <<>> /\ Top.fn = "parse_iinf" /\ Top.started
  /\ ret = "Invalid" /\ Top.stream.size.some
  /\ Top.stream.offset = Top.stream.size.v + 4
\* parse_file has read a header at a cursor of 2^64 - 1: the read failed
\* with Aborted.
C24_WitnessOverflow ==
  /\ stack # <<>> /\ Top.fn = "parse_file" /\ ret = "Aborted"
  /\ Top.stream.offset = -1

====
